---- MODULE Spec2Model ----
(***************************************************************************)
(* A model of SmartAIManager (src/ai_manager.py): the provider registry,   *)
(* model discovery and ranking, the retry/fallback engine behind           *)
(* chat_with_ai / generate_image / generate_video, the per-user quota      *)
(* cache over the durable ai_usage table, the chat session store and the   *)
(* generated-files cache.                                                  *)
(*                                                                         *)
(* The manager runs on one asyncio event loop: code between two awaits is  *)
(* one atomic step.  The only awaits that suspend a request are the        *)
(* backend calls (generation and prompt enhancement), so a request is the  *)
(* action Start (entry point up to its first backend call or its return)   *)
(* followed by Respond actions (a backend call's outcome, handled up to    *)
(* the next backend call or the return).                                   *)
(*                                                                         *)
(* Arabic message literals of the source are written here as English       *)
(* ASCII strings of the same role; none of them contains one of the        *)
(* keywords the error classification looks for, as in the source.          *)
(***************************************************************************)
EXTENDS Integers, Sequences, FiniteSets, TLC

VARIABLES
    env,                    \* the process environment and what the SDKs answer at discovery
    providers,              \* self.providers: Provider -> ProviderConfig
    discovery_completed,    \* self.discovery_completed
    user_limits_cache,      \* self.user_limits_cache: OrderedDict as a sequence, oldest first
    db_usage,               \* durable table ai_usage: key -> usage_count (no row = 0)
    db_log,                 \* durable conversation / generated-file records, in order
    chat_sessions,          \* self.chat_sessions: user_id -> session
    generated_files_cache,  \* self.generated_files_cache: cache_key -> entry
    today,                  \* datetime.now() as a calendar day
    now,                    \* datetime.now() in whole hours
    req,                    \* the request coroutines: locals and position
    started,                \* number of requests started so far
    commits,                \* history: successful update_user_usage calls per key
    resets,                 \* history: number of reset_daily_counts / resetcache runs
    trail,                  \* history of a run of rotate_model calls
    discoveries,            \* history: number of times _setup_and_discover_async was started
    touch_order             \* history: the cached keys, least recently touched first

vars == <<env, providers, discovery_completed, user_limits_cache, db_usage, db_log,
          chat_sessions, generated_files_cache, today, now, req, started, commits, resets, trail,
          discoveries, touch_order>>

----------------------------------------------------------------------------
(* Bounds of the model *)

MaxRequests == 2        \* requests started in one behaviour
MaxResets == 1          \* reset_daily_counts / resetcache runs in one behaviour
MaxUserLimit == 2       \* DAILY_AI_LIMIT of the environment (image and video: 1)
MaxDailyLimit == 1      \* <PROVIDER>_DAILY_LIMIT of the environment
MaxLive == 3            \* length of the list genai.list_models() answers
MaxExcess == 2          \* characters a prompt may have beyond its entry point's bound
FingerprintWidth == 3   \* characters of a prompt that decide its fingerprint
MaxDay == 1             \* calendar days 0..MaxDay
MaxNow == 3             \* hours the clock advances
max_cache_size == 2     \* self.max_cache_size, scaled down from the source's 1000

----------------------------------------------------------------------------
(* Enumerations *)

CHAT == "chat"
IMAGE == "image"
VIDEO == "video"
ServiceType == {CHAT, IMAGE, VIDEO}

GOOGLE == "google"
OPENAI == "openai"
STABILITY == "stability"
LUMA == "luma"
KLING == "kling"
Provider == {GOOGLE, OPENAI, STABILITY, LUMA, KLING}
\* insertion order of the providers dict
ProviderOrder == <<GOOGLE, OPENAI, STABILITY, LUMA, KLING>>

\* Python's None
None == "<None>"

----------------------------------------------------------------------------
(* Strings: the str operations the source uses *)

Contains(s, p) ==
    \E i \in 1..(Len(s) - Len(p) + 1) : SubSeq(s, i, i + Len(p) - 1) = p

StartsWith(s, p) == Len(s) >= Len(p) /\ SubSeq(s, 1, Len(p)) = p

UpperChars == "ABCDEFGHIJKLMNOPQRSTUVWXYZ"
LowerChars == "abcdefghijklmnopqrstuvwxyz"

\* str.lower() of one character, as a table
LowerMap == [c \in {SubSeq(UpperChars, i, i) : i \in 1..26} |->
    LET i == CHOOSE j \in 1..26 : SubSeq(UpperChars, j, j) = c
    IN SubSeq(LowerChars, i, i)]

LowerChar(c) == IF c \in DOMAIN LowerMap THEN LowerMap[c] ELSE c

RECURSIVE Lower(_)
Lower(s) == IF s = "" THEN "" ELSE LowerChar(SubSeq(s, 1, 1)) \o Lower(SubSeq(s, 2, Len(s)))

IsSpace(c) == c = " " \/ c = "\t" \/ c = "\n"

RECURSIVE LStrip(_)
LStrip(s) == IF s # "" /\ IsSpace(SubSeq(s, 1, 1)) THEN LStrip(SubSeq(s, 2, Len(s))) ELSE s

RECURSIVE RStrip(_)
RStrip(s) ==
    IF s # "" /\ IsSpace(SubSeq(s, Len(s), Len(s))) THEN RStrip(SubSeq(s, 1, Len(s) - 1)) ELSE s

Strip(s) == RStrip(LStrip(s))

\* s[:n]
Prefix(s, n) == IF Len(s) <= n THEN s ELSE SubSeq(s, 1, n)

\* s.replace(p, '')
RECURSIVE Remove(_, _)
Remove(s, p) ==
    IF Len(s) < Len(p) \/ p = "" THEN s
    ELSE IF SubSeq(s, 1, Len(p)) = p THEN Remove(SubSeq(s, Len(p) + 1, Len(s)), p)
    ELSE SubSeq(s, 1, 1) \o Remove(SubSeq(s, 2, Len(s)), p)

\* "\n".join(lines)
RECURSIVE JoinLines(_)
JoinLines(lines) ==
    IF lines = <<>> THEN ""
    ELSE IF Len(lines) = 1 THEN lines[1]
    ELSE lines[1] \o "\n" \o JoinLines(Tail(lines))

\* Python truthiness of an Optional[str]
Truthy(s) == s # None /\ s # ""

----------------------------------------------------------------------------
(* The environment: API keys, limits, and what the SDKs answer *)

ValidKey == [p \in Provider |->
    CASE p = GOOGLE -> "AIzaSy-google-key-0000001"
      [] p = OPENAI -> "sk-openai-key-000000000001"
      [] OTHER -> "key-0123456789-0123456789"]

\* os.getenv of an API key: unset, empty, blank, short, mid-length, long without the prefix
KeyShapes(p) == {None, "", "   ", "AIshort", "sk-0123456789", "x-0123456789-0123456789", ValidKey[p]}

\* names genai.list_models() may answer (with the API's "models/" prefix)
LiveNames == {"models/gemini-2.0-flash", "models/gemini-3-pro-preview", "models/gemini-2.5-pro",
              "models/veo-2.0-generate-001", "models/veo-3.0-generate-001",
              "models/imagen-3.0-generate-001", "models/embedding-001"}

\* the static list of _setup_and_discover_google, used when list_models raises
GoogleFallbackModels ==
    <<"nano-banana-pro-preview", "imagen-4.0-generate-preview-06-06", "imagen-3.0-generate-001",
      "gemini-2.5-flash", "gemini-2.5-pro", "gemini-3-flash-preview",
      "gemini-3-pro-preview", "gemini-2.0-flash", "veo-3.0-generate-001">>

known_openai_models == [st \in {CHAT, IMAGE} |->
    IF st = CHAT
    THEN <<"gpt-4o", "gpt-4o-mini", "gpt-4-turbo", "gpt-4", "gpt-3.5-turbo", "gpt-3.5-turbo-instruct">>
    ELSE <<"dall-e-3", "dall-e-2">>]

----------------------------------------------------------------------------
(* Model catalog: classification and priority *)

MkModelInfo(name, provider, service_type, version, priority, is_latest) ==
    [name |-> name, provider |-> provider, service_type |-> service_type,
     version |-> version, priority |-> priority, is_latest |-> is_latest]

\* what the analysers return for a discarded name (Python's None)
NoModelInfo == [service_type |-> None]

\* _analyze_google_model: None for a name of no known capability
GoogleServiceType(model_lower) ==
    IF Contains(model_lower, "gemini") /\ ~Contains(model_lower, "tts") THEN CHAT
    ELSE IF Contains(model_lower, "imagen") \/ Contains(model_lower, "banana") THEN IMAGE
    ELSE IF Contains(model_lower, "veo") THEN VIDEO
    ELSE None

GoogleChatRule(model_lower) ==
    IF Contains(model_lower, "gemini-3") THEN [version |-> "3.0", priority |-> 10]
    ELSE IF Contains(model_lower, "gemini-2.5") \/ Contains(model_lower, "gemini-2-5")
         THEN [version |-> "2.5", priority |-> 15]
    ELSE IF Contains(model_lower, "gemini-2.0") \/ Contains(model_lower, "gemini-2-0")
         THEN [version |-> "2.0", priority |-> 20]
    ELSE IF Contains(model_lower, "gemini-1.5") \/ Contains(model_lower, "gemini-1-5")
         THEN [version |-> "1.5", priority |-> 30]
    ELSE IF Contains(model_lower, "gemini-1.0") \/ Contains(model_lower, "gemini-1-0")
            \/ Contains(model_lower, "gemini-pro")
         THEN [version |-> "1.0", priority |-> 40]
    ELSE [version |-> "1.0", priority |-> 100]

GoogleImagePriority(model_lower) ==
    IF Contains(model_lower, "banana") THEN 5
    ELSE IF Contains(model_lower, "imagen-4") THEN 10
    ELSE IF Contains(model_lower, "imagen-3") THEN 20
    ELSE IF Contains(model_lower, "imagen-2") THEN 30
    ELSE 50

_analyze_google_model(model_name) ==
    LET model_lower == Lower(model_name)
        service_type == GoogleServiceType(model_lower)
        is_latest == Contains(model_lower, "latest")
    IN  IF service_type = None THEN NoModelInfo
        ELSE IF service_type = CHAT
             THEN LET rule == GoogleChatRule(model_lower)
                  IN MkModelInfo(model_name, GOOGLE, CHAT, rule.version, rule.priority, is_latest)
        ELSE IF service_type = IMAGE
             THEN MkModelInfo(model_name, GOOGLE, IMAGE, "1.0", GoogleImagePriority(model_lower), is_latest)
        ELSE MkModelInfo(model_name, GOOGLE, VIDEO, "1.0",
                         IF Contains(model_lower, "veo") THEN 10 ELSE 100, is_latest)

\* _analyze_openai_model: None for a name no rule matches
_analyze_openai_model(model_name, service_type) ==
    LET model_lower == Lower(model_name)
    IN  IF service_type = CHAT
        THEN IF Contains(model_lower, "gpt-4o")
             THEN MkModelInfo(model_name, OPENAI, CHAT, "4.0",
                              IF Contains(model_lower, "mini") THEN 5 ELSE 10, FALSE)
             ELSE IF Contains(model_lower, "gpt-4-turbo")
                  THEN MkModelInfo(model_name, OPENAI, CHAT, "4.0", 15, FALSE)
             ELSE IF Contains(model_lower, "gpt-4")
                  THEN MkModelInfo(model_name, OPENAI, CHAT, "4.0", 20, FALSE)
             ELSE IF Contains(model_lower, "gpt-3.5-turbo")
                  THEN MkModelInfo(model_name, OPENAI, CHAT, "3.5",
                                   IF Contains(model_lower, "instruct") THEN 30 ELSE 25, FALSE)
             ELSE NoModelInfo
        ELSE IF service_type = IMAGE
        THEN IF Contains(model_lower, "dall-e-3")
             THEN MkModelInfo(model_name, OPENAI, IMAGE, "3.0", 5, FALSE)
             ELSE IF Contains(model_lower, "dall-e-2")
                  THEN MkModelInfo(model_name, OPENAI, IMAGE, "2.0", 10, FALSE)
             ELSE NoModelInfo
        ELSE MkModelInfo(model_name, OPENAI, service_type, "1.0", 100, FALSE)

\* a discovery that leaves the lists in discovery order
Unsorted(models) == models

\* list.sort(key=lambda x: x.priority): a stable sort, here by insertion
RECURSIVE InsertByPriority(_, _)
InsertByPriority(sorted, m) ==
    IF sorted = <<>> THEN <<m>>
    ELSE IF sorted[Len(sorted)].priority <= m.priority THEN Append(sorted, m)
    ELSE Append(InsertByPriority(SubSeq(sorted, 1, Len(sorted) - 1), m), sorted[Len(sorted)])

RECURSIVE SortByPriority(_)
SortByPriority(models) ==
    IF models = <<>> THEN <<>>
    ELSE InsertByPriority(SortByPriority(SubSeq(models, 1, Len(models) - 1)), models[Len(models)])

\* min(models, key=lambda x: x.priority): the first of the minimal entries
MinByPriority(models) ==
    LET i == CHOOSE j \in 1..Len(models) :
                /\ \A k \in 1..Len(models) : models[j].priority <= models[k].priority
                /\ \A k \in 1..(j - 1) : models[k].priority > models[j].priority
    IN models[i]

\* the models of one capability among a list of analysed names, in list order
RECURSIVE Classified(_, _)
Classified(infos, st) ==
    IF infos = <<>> THEN <<>>
    ELSE LET rest == Classified(Tail(infos), st)
         IN IF Head(infos).service_type = st
            THEN <<Head(infos)>> \o rest ELSE rest

Names(models) == [i \in 1..Len(models) |-> models[i].name]

----------------------------------------------------------------------------
(* Provider registry *)

EmptyDict == <<>>

DefaultDailyLimit == [p \in Provider |->
    CASE p = GOOGLE -> 50 [] p = OPENAI -> 30 [] p = STABILITY -> 20 [] p = LUMA -> 10 [] p = KLING -> 5]

\* ProviderConfig(name, api_key, daily_limit): enabled defaults to False
ProviderConfig(name, api_key, daily_limit) ==
    [name |-> name, api_key |-> api_key, enabled |-> FALSE, daily_limit |-> daily_limit,
     usage_today |-> 0, errors_today |-> 0, last_error |-> None,
     discovered_models |-> EmptyDict, active_models |-> EmptyDict]

\* _init_providers: the validation loop only ever sets enabled to False
_init_providers(e) ==
    [p \in Provider |->
        LET config == ProviderConfig(p, e.keys[p], e.daily_limit[p])
        IN  IF ~Truthy(config.api_key) \/ Strip(config.api_key) = ""
            THEN [config EXCEPT !.enabled = FALSE]
            ELSE IF Len(config.api_key) < 10 THEN [config EXCEPT !.enabled = FALSE]
            ELSE config]

\* dict assignment d[k] = v
DictSet(d, k, v) == [x \in DOMAIN d \cup {k} |-> IF x = k THEN v ELSE d[x]]

\* dict.get(k, default)
DictGet(d, k, default) == IF k \in DOMAIN d THEN d[k] ELSE default

\* _setup_and_discover_google
_setup_and_discover_google(P, e) ==
    LET google_config == P[GOOGLE]
    IN  IF ~Truthy(google_config.api_key) THEN P
        ELSE IF GOOGLE \in e.sdk_fail
             THEN [P EXCEPT ![GOOGLE].enabled = FALSE]
        ELSE
        LET all_models ==
                IF e.live.raises THEN GoogleFallbackModels
                ELSE [i \in 1..Len(e.live.names) |-> Remove(e.live.names[i], "models/")]
            infos == [i \in 1..Len(all_models) |-> _analyze_google_model(all_models[i])]
            discovered == [st \in ServiceType |-> SortByPriority(Classified(infos, st))]
            active == IF discovered[CHAT] # <<>>
                      THEN DictSet(google_config.active_models, CHAT, discovered[CHAT][1].name)
                      ELSE google_config.active_models
        IN [P EXCEPT ![GOOGLE] = [google_config EXCEPT !.enabled = TRUE,
                                                       !.discovered_models = discovered,
                                                       !.active_models = active]]

\* _setup_and_discover_openai
_setup_and_discover_openai(P, e) ==
    LET openai_config == P[OPENAI]
    IN  IF ~Truthy(openai_config.api_key) THEN P
        ELSE IF OPENAI \in e.sdk_fail
             THEN [P EXCEPT ![OPENAI].enabled = FALSE]
        ELSE
        LET discovered == [st \in ServiceType |->
                IF st \in DOMAIN known_openai_models
                THEN LET models == known_openai_models[st]
                         infos == [i \in 1..Len(models) |-> _analyze_openai_model(models[i], st)]
                     IN SortByPriority(Classified(infos, st))
                ELSE <<>>]
        IN [P EXCEPT ![OPENAI] = [openai_config EXCEPT !.enabled = TRUE,
                                                       !.discovered_models = discovered]]

\* _setup_other_apis: Stability, Luma and Kling get no model list
_setup_other_apis(P) ==
    [p \in Provider |->
        IF p \in {STABILITY, LUMA, KLING} /\ Truthy(P[p].api_key) /\ Len(P[p].api_key) > 20
        THEN [P[p] EXCEPT !.enabled = TRUE]
        ELSE P[p]]

\* a selection that takes the lowest priority number among all the lists of the provider
SelectBestOverall(config, sts, active) ==
    LET filled == {st \in sts : config.discovered_models[st] # <<>>}
        all == UNION {{config.discovered_models[st][i] : i \in 1..Len(config.discovered_models[st])} :
                        st \in filled}
        best == CHOOSE m \in all : \A o \in all : m.priority <= o.priority
    IN [st \in filled |-> best.name]

\* active_models of one provider after _select_best_models
RECURSIVE SelectBest(_, _, _)
SelectBest(config, sts, active) ==
    IF sts = {} THEN active
    ELSE LET st == CHOOSE x \in sts : TRUE
             models == config.discovered_models[st]
         IN SelectBest(config, sts \ {st},
                       IF models # <<>> THEN DictSet(active, st, MinByPriority(models).name)
                       ELSE active)

_select_best_models(P) ==
    [p \in Provider |->
        IF ~P[p].enabled THEN P[p]
        ELSE [P[p] EXCEPT !.active_models =
                SelectBest(P[p], DOMAIN P[p].discovered_models, P[p].active_models)]]

\* _setup_and_discover_async: e.body_fail names the step after which an exception is
\* raised in the body, outside the try blocks of the two discovery routines; the
\* except branch logs it and the steps that follow are skipped
_setup_and_discover_async(P, e) ==
    LET P1 == _setup_and_discover_google(P, e)
        P2 == _setup_and_discover_openai(P1, e)
        P3 == _setup_other_apis(P2)
    IN  CASE e.body_fail = "start" -> P
          [] e.body_fail = "google" -> P1
          [] e.body_fail = "openai" -> P2
          [] e.body_fail = "others" -> P3
          [] OTHER -> _select_best_models(P3)

\* an ensure_discovery that does not look at the flag
DiscoveryRunsAlways(completed) == completed \in BOOLEAN

\* ensure_discovery: "if not self.discovery_completed", outside and inside the lock
DiscoveryRuns(completed) == ~completed

\* an ensure_discovery that returns before the selection of the active models
ensure_discovery_unselected(P, completed, e) ==
    IF ~completed
    THEN _setup_other_apis(_setup_and_discover_openai(_setup_and_discover_google(P, e), e))
    ELSE P

\* ensure_discovery: the providers table it leaves (discovery_completed is then True)
ensure_discovery(P, completed, e) ==
    IF DiscoveryRuns(completed) THEN _setup_and_discover_async(P, e) ELSE P

----------------------------------------------------------------------------
(* get_available_providers, get_active_model, rotate_model *)

Supports(p, service_type) ==
    CASE service_type = CHAT -> p \in {GOOGLE, OPENAI}
      [] service_type = IMAGE -> p \in {GOOGLE, OPENAI, STABILITY}
      [] service_type = VIDEO -> p \in {GOOGLE, LUMA, KLING}

\* a sort key with the two counters in the other order
SortKeyUsageFirst(a, b) ==
    \/ a.usage_today < b.usage_today
    \/ a.usage_today = b.usage_today /\ a.errors_today <= b.errors_today

\* available.sort(key=lambda x: (x.errors_today, x.usage_today))
SortKeyLeq(a, b) ==
    \/ a.errors_today < b.errors_today
    \/ a.errors_today = b.errors_today /\ a.usage_today <= b.usage_today

RECURSIVE InsertProvider(_, _, _)
InsertProvider(P, sorted, p) ==
    IF sorted = <<>> THEN <<p>>
    ELSE IF SortKeyLeq(P[sorted[Len(sorted)]], P[p]) THEN Append(sorted, p)
    ELSE Append(InsertProvider(P, SubSeq(sorted, 1, Len(sorted) - 1), p), sorted[Len(sorted)])

RECURSIVE SortProviders(_, _)
SortProviders(P, ps) ==
    IF ps = <<>> THEN <<>>
    ELSE InsertProvider(P, SortProviders(P, SubSeq(ps, 1, Len(ps) - 1)), ps[Len(ps)])

Usable(config) == config.enabled /\ config.usage_today < config.daily_limit

RECURSIVE AvailableFrom(_, _, _)
AvailableFrom(P, service_type, i) ==
    IF i > Len(ProviderOrder) THEN <<>>
    ELSE LET p == ProviderOrder[i]
             rest == AvailableFrom(P, service_type, i + 1)
         IN IF Usable(P[p]) /\ Supports(p, service_type) THEN <<p>> \o rest ELSE rest

\* the names of the provider configs it returns, in order
get_available_providers(P, service_type) == SortProviders(P, AvailableFrom(P, service_type, 1))

get_active_model(P, p, service_type) ==
    IF ~P[p].enabled THEN None ELSE DictGet(P[p].active_models, service_type, None)

\* a rotation that stays on the last model instead of wrapping around
RotateTargetNoWrap(config, service_type, current_model) ==
    IF service_type \notin DOMAIN config.discovered_models THEN None
    ELSE LET models == config.discovered_models[service_type]
         IN IF models = <<>> THEN None
            ELSE IF ~(\E i \in 1..Len(models) : models[i].name = current_model) THEN models[1].name
            ELSE LET current_index == CHOOSE i \in 1..Len(models) : models[i].name = current_model
                 IN IF current_index >= Len(models) THEN models[Len(models)].name
                    ELSE models[current_index + 1].name

\* rotate_model: the model it returns (None when the provider has no list for the capability)
RotateTarget(config, service_type, current_model) ==
    IF service_type \notin DOMAIN config.discovered_models THEN None
    ELSE LET models == config.discovered_models[service_type]
         IN IF models = <<>> THEN None
            ELSE IF ~Truthy(current_model) \/ ~(\E i \in 1..Len(models) : models[i].name = current_model)
                 THEN models[1].name
            ELSE LET current_index == CHOOSE i \in 1..Len(models) :
                                         /\ models[i].name = current_model
                                         /\ \A j \in 1..(i - 1) : models[j].name # current_model
                 IN IF current_index >= Len(models) THEN models[1].name
                    ELSE models[current_index + 1].name

\* rotate_model: the providers table it leaves
rotate_model(P, p, service_type, current_model) ==
    LET new_model == RotateTarget(P[p], service_type, current_model)
    IN IF new_model = None THEN P
       ELSE [P EXCEPT ![p].active_models = DictSet(@, service_type, new_model)]

----------------------------------------------------------------------------
(* Quota cache over the durable ai_usage table *)

ServiceKey == [st \in ServiceType |->
    CASE st = CHAT -> "ai_chat" [] st = IMAGE -> "image_gen" [] st = VIDEO -> "video_gen"]

\* strftime('%Y-%m-%d') of a model day
DayString(day) == "2026-11-0" \o ToString(day + 1)

\* a cache key: f"{user_id}_{today}_{service_type}", kept as its three parts
CacheKey(user_id, day, service) == <<user_id, day, service>>

KeyString(key) == ToString(key[1]) \o "_" \o DayString(key[2]) \o "_" \o key[3]

EndsWith(s, suffix) ==
    Len(s) >= Len(suffix) /\ SubSeq(s, Len(s) - Len(suffix) + 1, Len(s)) = suffix

InCache(cache, key) == \E i \in 1..Len(cache) : cache[i].key = key

CacheGet(cache, key, default) ==
    IF InCache(cache, key)
    THEN cache[CHOOSE i \in 1..Len(cache) : cache[i].key = key].count
    ELSE default

RECURSIVE CacheDelete(_, _)
CacheDelete(cache, key) ==
    IF cache = <<>> THEN <<>>
    ELSE IF Head(cache).key = key THEN Tail(cache)
    ELSE <<Head(cache)>> \o CacheDelete(Tail(cache), key)

\* OrderedDict.move_to_end(key)
MoveToEnd(cache, key) ==
    Append(CacheDelete(cache, key), [key |-> key, count |-> CacheGet(cache, key, 0)])

\* OrderedDict.__setitem__: an existing key keeps its place, a new one goes last
CacheSet(cache, key, count) ==
    IF InCache(cache, key)
    THEN [i \in 1..Len(cache) |-> IF cache[i].key = key THEN [key |-> key, count |-> count] ELSE cache[i]]
    ELSE Append(cache, [key |-> key, count |-> count])

\* the order of last touch after key was touched (checked or updated), kept for
\* the keys the cache holds
StillCached(order, cache) ==
    LET Cached(k) == InCache(cache, k)
    IN SelectSeq(order, Cached)

Touch(order, key, cache) ==
    LET Other(k) == k # key
    IN StillCached(Append(SelectSeq(order, Other), key), cache)

\* a check that reserves a slot: it counts the request when it allows it
check_user_limit_reserving(cache, db, user_id, service, day, limits) ==
    LET cache_key == CacheKey(user_id, day, service)
        current_usage == IF InCache(cache, cache_key) THEN CacheGet(cache, cache_key, 0)
                         ELSE db[cache_key]
        limit == DictGet(limits, service, 20)
        counted == IF current_usage >= limit THEN current_usage ELSE current_usage + 1
    IN [cache |-> CacheSet(cache, cache_key, counted),
        allowed |-> ~(current_usage >= limit),
        remaining |-> IF current_usage >= limit THEN 0 ELSE limit - current_usage]

\* the SELECT of check_user_limit raises: the table cannot be read in this environment
\* and the key is not cached
ReadRaises(cache, user_id, service, day) ==
    "read" \in env.db_fail /\ ~InCache(cache, CacheKey(user_id, day, service))

\* a check whose except branch denies the request
check_user_limit_closed(cache, db, user_id, service, day, limits) ==
    LET cache_key == CacheKey(user_id, day, service)
        hit == InCache(cache, cache_key)
        current_usage == IF hit THEN CacheGet(cache, cache_key, 0) ELSE db[cache_key]
        touched == IF hit THEN MoveToEnd(cache, cache_key) ELSE CacheSet(cache, cache_key, current_usage)
        bounded == IF Len(touched) > max_cache_size THEN Tail(touched) ELSE touched
        limit == DictGet(limits, service, 20)
    IN  IF ReadRaises(cache, user_id, service, day)
        THEN [cache |-> cache, allowed |-> FALSE, remaining |-> 0]
        ELSE [cache |-> bounded,
              allowed |-> ~(current_usage >= limit),
              remaining |-> IF current_usage >= limit THEN 0 ELSE limit - current_usage]

\* check_user_limit: the cache it leaves and the pair it returns; (True, 999) from
\* its except branch
check_user_limit(cache, db, user_id, service, day, limits) ==
    LET cache_key == CacheKey(user_id, day, service)
        hit == InCache(cache, cache_key)
        current_usage == IF hit THEN CacheGet(cache, cache_key, 0) ELSE db[cache_key]
        touched == IF hit THEN MoveToEnd(cache, cache_key) ELSE CacheSet(cache, cache_key, current_usage)
        bounded == IF Len(touched) > max_cache_size THEN Tail(touched) ELSE touched
        limit == DictGet(limits, service, 20)
    IN  IF ReadRaises(cache, user_id, service, day)
        THEN [cache |-> cache, allowed |-> TRUE, remaining |-> 999]
        ELSE [cache |-> bounded,
              allowed |-> ~(current_usage >= limit),
              remaining |-> IF current_usage >= limit THEN 0 ELSE limit - current_usage]

\* an update that writes the cache and leaves the table
update_user_usage_cached(cache, db, user_id, service, day) ==
    [cache |-> CacheSet(cache, CacheKey(user_id, day, service),
                        CacheGet(cache, CacheKey(user_id, day, service), 0) + 1),
     db |-> db, ok |-> TRUE]

\* an update that writes the cache after the table, and neither when the table
\* cannot be written
update_user_usage_table_first(cache, db, user_id, service, day) ==
    LET cache_key == CacheKey(user_id, day, service)
        current == CacheGet(cache, cache_key, 0)
    IN  IF "write" \in env.db_fail
        THEN [cache |-> cache, db |-> db, ok |-> FALSE]
        ELSE [cache |-> CacheSet(cache, cache_key, current + 1),
              db |-> [db EXCEPT ![cache_key] = @ + 1], ok |-> TRUE]

\* update_user_usage: the cache and the table it leaves, and the value it returns
\* (False from its except branch, when the INSERT raises)
update_user_usage(cache, db, user_id, service, day) ==
    LET cache_key == CacheKey(user_id, day, service)
        current == CacheGet(cache, cache_key, 0)
    IN  IF "write" \in env.db_fail
        THEN [cache |-> CacheSet(cache, cache_key, current + 1), db |-> db, ok |-> FALSE]
        ELSE [cache |-> CacheSet(cache, cache_key, current + 1),
              db |-> [db EXCEPT ![cache_key] = @ + 1], ok |-> TRUE]

\* reset_daily_counts: the user cache it leaves
RECURSIVE ResetCache(_, _)
ResetCache(cache, day) ==
    IF cache = <<>> THEN <<>>
    ELSE IF ~EndsWith(KeyString(Head(cache).key), DayString(day)) THEN ResetCache(Tail(cache), day)
    ELSE <<Head(cache)>> \o ResetCache(Tail(cache), day)

\* reset_daily_counts with the error counters and messages left as they are
ResetUsageOnly(P) ==
    [p \in Provider |-> [P[p] EXCEPT !.usage_today = 0]]

\* reset_daily_counts: the providers table it leaves
ResetProviders(P) ==
    [p \in Provider |-> [P[p] EXCEPT !.usage_today = 0, !.errors_today = 0, !.last_error = None]]

----------------------------------------------------------------------------
(* Session store *)

\* self.session_timeout = timedelta(hours=1), in hours
session_timeout == 1

\* _cleanup_old_sessions
_cleanup_old_sessions_inclusive(sessions, t) ==
    LET keep == {u \in DOMAIN sessions : ~(t - sessions[u].last_activity >= session_timeout)}
    IN [u \in keep |-> sessions[u]]

_cleanup_old_sessions(sessions, t) ==
    LET keep == {u \in DOMAIN sessions : ~(t - sessions[u].last_activity > session_timeout)}
    IN [u \in keep |-> sessions[u]]

\* _chat_with_google up to its await: sweep, create the session if absent, touch it.
\* chat is the object start_chat returned, told apart by the model it was made from
\* and the time it was made at (created); replaced records that the object was made
\* in the call that swept an older session of the same user
OpenGoogleSession(sessions, model_name, user_id, t) ==
    LET swept == _cleanup_old_sessions(sessions, t)
        present == IF user_id \in DOMAIN swept THEN swept
                   ELSE DictSet(swept, user_id,
                                [chat |-> model_name, created |-> t, last_activity |-> t,
                                 replaced |-> user_id \in DOMAIN sessions])
    IN [present EXCEPT ![user_id].last_activity = t]

----------------------------------------------------------------------------
(* The fallback engine *)

\* max_retries passed by chat_with_ai, generate_image, generate_video
max_retries_chat == 16
max_retries_image == 6
max_retries_video == 6

\* the default max_retries of _execute_with_fallback, as if the entry points passed none
MaxRetriesDefault(service_type) ==
    IF service_type \in ServiceType THEN 3 ELSE 0

MaxRetries(service_type) ==
    CASE service_type = CHAT -> max_retries_chat
      [] service_type = IMAGE -> max_retries_image
      [] service_type = VIDEO -> max_retries_video

\* shortest accepted stripped prompt, and the truncation length, per entry point
min_len_chat == 1
min_len_image == 3
min_len_video == 5
max_len_chat == 4000
max_len_image == 2000
max_len_video == 1000

\* entry points that only test "not prompt"
MinLenNone(service_type) ==
    IF service_type \in ServiceType THEN 0 ELSE 0

MinLen(service_type) ==
    CASE service_type = CHAT -> min_len_chat
      [] service_type = IMAGE -> min_len_image
      [] service_type = VIDEO -> min_len_video

\* the prompt after the length check of the entry point
Truncate(service_type, prompt) ==
    CASE service_type = CHAT ->
            IF Len(prompt) > max_len_chat THEN SubSeq(prompt, 1, max_len_chat) \o "..." ELSE prompt
      [] service_type = IMAGE -> Prefix(prompt, max_len_image)
      [] service_type = VIDEO -> Prefix(prompt, max_len_video)

NoCall == [purpose |-> None, via |-> None, target |-> None, model |-> None, sent_to |-> None,
           target_usable |-> TRUE]
NoResult == [ok |-> FALSE, kind |-> None, value |-> None, message |-> ""]

\* a request coroutine that is not running
IdleReq ==
    [pc |-> "idle", service |-> None, user_id |-> 0, prompt |-> "", style |-> None, text |-> "",
     providers |-> <<>>, idx |-> 0, attempt |-> 0, current_model |-> None,
     errors |-> <<>>, call |-> NoCall, result |-> NoResult,
     \* history: isinstance(user_id, int); backend calls issued for the current provider;
     \* the providers given up so far, why, and whether on their first call; the kind
     \* of the last failure handled
     user_int |-> TRUE, ncalls |-> 0, abandoned |-> <<>>, last_failure |-> None]

Result(ok, kind, value, message) == [ok |-> ok, kind |-> kind, value |-> value, message |-> message]

\* the keyword tests of _execute_with_fallback's except branch
HasKeyword(lowered, keywords) == \E keyword \in keywords : Contains(lowered, keyword)

\* an except branch that rotates on every failure
is_quota_error_always(error_msg) == Len(error_msg) >= 0

is_quota_error(error_msg) ==
    HasKeyword(Lower(error_msg), {"429", "quota", "rate limit", "resource exhausted"})

is_model_error(error_msg) ==
    HasKeyword(Lower(error_msg), {"404", "not found", "invalid model", "model not found"})

\* the exception _execute_with_fallback raises after its loop
AllAttemptsFailed(p, service_type) ==
    "all attempts failed for " \o p \o " (" \o ToString(MaxRetries(service_type)) \o " attempts)"

\* a summary built from the last error alone
ExhaustedResultLast(service_type, errors) ==
    IF errors # <<>>
    THEN Result(FALSE, "all_failed", None, errors[Len(errors)])
    ELSE Result(FALSE, "unexpected", None, "an unexpected error occurred.")

\* the failure each entry point returns after its provider loop
ExhaustedResult(service_type, errors) ==
    IF errors # <<>>
    THEN LET error_summary == JoinLines(SubSeq(errors, 1, IF Len(errors) < 3 THEN Len(errors) ELSE 3))
         IN Result(FALSE, "all_failed", None,
                   (CASE service_type = CHAT -> "all chat services failed:\n"
                      [] service_type = IMAGE -> "all image services failed:\n"
                      [] service_type = VIDEO -> "all video services failed:\n") \o error_summary)
    ELSE Result(FALSE, "unexpected", None, "an unexpected error occurred.")

\* the backend a handler contacts: the Google and Kling video handlers go to Luma
CallTarget(p, service_type) ==
    IF service_type = VIDEO /\ p \in {GOOGLE, KLING} THEN LUMA ELSE p

\* handlers that report an exceeded timeout as a rate limit
HandlerErrorRateLimited(p, service_type, failure) ==
    IF failure.timeout THEN "rate limit: no reply in time" ELSE failure.msg

\* the message of the exception a handler raises for a backend failure
HandlerError(p, service_type, failure) ==
    LET target == CallTarget(p, service_type)
    IN CASE target = GOOGLE /\ service_type = CHAT ->
              IF failure.timeout THEN "timed out waiting for the reply of Google"
              ELSE "Google Gemini error: " \o failure.msg
         [] target = GOOGLE /\ service_type = IMAGE -> failure.msg
         [] target = OPENAI /\ service_type = CHAT ->
              IF failure.timeout THEN "timed out waiting for the reply of OpenAI"
              ELSE "OpenAI error: " \o failure.msg
         [] target = OPENAI /\ service_type = IMAGE ->
              IF failure.timeout THEN "timed out waiting for DALL-E"
              ELSE "DALL-E error: " \o failure.msg
         [] target = STABILITY -> "Stability AI error: " \o failure.msg
         [] target = LUMA -> "Luma AI error: " \o failure.msg
         [] OTHER -> failure.msg

RECURSIVE Enter(_), Attempt(_), Failed(_, _), Abandon(_, _, _)

\* the body of the entry point's "for provider_config in providers" loop, from the
\* provider at q.idx on, up to the next backend call or the return
Enter(S) ==
    LET q == S.q
    IN  IF q.idx > Len(q.providers)
        THEN [S EXCEPT !.q.pc = "done", !.q.call = NoCall,
                       !.q.result = ExhaustedResult(q.service, q.errors)]
        ELSE LET p == q.providers[q.idx]
             IN IF ~S.providers[p].enabled
                THEN Abandon(S, "provider " \o p \o " is not enabled", "disabled")
                ELSE Attempt([S EXCEPT !.q.current_model = get_active_model(S.providers, p, q.service),
                                       !.q.attempt = 0, !.q.ncalls = 0])

\* the model the handler of the backend puts into its call: _chat_with_google sends
\* through the stored chat object of the user, _chat_with_openai and the image
\* handlers of Google and OpenAI pass model_name on, the other handlers take none
SentTo(sessions, p, service_type, model, user_id) ==
    CASE service_type = CHAT /\ p = GOOGLE -> sessions[user_id].chat
      [] service_type \in {CHAT, IMAGE} /\ p \in {GOOGLE, OPENAI} -> model
      [] OTHER -> None

\* one iteration of _execute_with_fallback's loop, up to the await of execute_func
Attempt(S) ==
    LET q == S.q
        p == q.providers[q.idx]
        models == DictGet(S.providers[p].discovered_models, q.service, <<>>)
    IN  IF ~Truthy(q.current_model) /\ models = <<>>
        THEN Failed(S, "no models for " \o q.service)
        ELSE
        LET model == IF ~Truthy(q.current_model) THEN models[1].name ELSE q.current_model
            P1 == IF ~Truthy(q.current_model)
                  THEN [S.providers EXCEPT ![p].active_models = DictSet(@, q.service, model)]
                  ELSE S.providers
            S1 == [S EXCEPT !.providers = P1, !.q.current_model = model]
            target == CallTarget(p, q.service)
        IN  IF q.service = VIDEO /\ p \in {GOOGLE, KLING} /\ ~P1[LUMA].enabled
            THEN Failed(S1, IF p = GOOGLE THEN "Google Veo is not available now"
                            ELSE "Kling AI is not available now")
            ELSE [S1 EXCEPT
                    !.chat_sessions =
                        IF q.service = CHAT /\ p = GOOGLE
                        THEN OpenGoogleSession(@, model, q.user_id, S.t) ELSE @,
                    !.q.pc = "call",
                    !.q.ncalls = @ + 1,
                    !.q.call = [purpose |-> "generate", via |-> p, target |-> target,
                                model |-> model,
                                sent_to |-> SentTo(IF q.service = CHAT /\ p = GOOGLE
                                                   THEN OpenGoogleSession(S.chat_sessions, model,
                                                                          q.user_id, S.t)
                                                   ELSE S.chat_sessions,
                                                   p, q.service, model, q.user_id),
                                target_usable |-> Usable(P1[target])]]

\* an except branch in a loop that rotates for as long as there is another model
FailedUnbounded(S, error_msg) ==
    LET q == S.q
        p == q.providers[q.idx]
    IN  IF is_quota_error(error_msg) \/ is_model_error(error_msg)
        THEN LET next_model == RotateTarget(S.providers[p], q.service, q.current_model)
                 S1 == [S EXCEPT !.providers = rotate_model(@, p, q.service, q.current_model)]
             IN IF Truthy(next_model) /\ next_model # q.current_model
                THEN Attempt([S1 EXCEPT !.q.current_model = next_model, !.q.attempt = @ + 1])
                ELSE Abandon(S1, AllAttemptsFailed(p, q.service), "break")
        ELSE Abandon(S, AllAttemptsFailed(p, q.service), "break")

\* the except branch of _execute_with_fallback's loop
Failed(S, error_msg) ==
    LET q == S.q
        p == q.providers[q.idx]
    IN  IF is_quota_error(error_msg) \/ is_model_error(error_msg)
        THEN LET next_model == RotateTarget(S.providers[p], q.service, q.current_model)
                 S1 == [S EXCEPT !.providers = rotate_model(@, p, q.service, q.current_model)]
             IN IF Truthy(next_model) /\ next_model # q.current_model
                THEN IF q.attempt + 1 < MaxRetries(q.service)
                     THEN Attempt([S1 EXCEPT !.q.current_model = next_model, !.q.attempt = @ + 1])
                     ELSE Abandon(S1, AllAttemptsFailed(p, q.service), "budget")
                ELSE Abandon(S1, AllAttemptsFailed(p, q.service), "break")
        ELSE Abandon(S, AllAttemptsFailed(p, q.service), "break")

\* an except branch that records the summary but leaves the provider's counters alone
AbandonUncounted(S, error_msg, reason) ==
    LET q == S.q
        p == q.providers[q.idx]
    IN Enter([S EXCEPT
                !.q.errors = Append(@, p \o ": " \o Prefix(error_msg, 100)),
                !.q.abandoned = Append(@, [provider |-> p, reason |-> reason,
                                           first |-> q.ncalls = 1, called |-> q.ncalls >= 1]),
                !.q.idx = @ + 1])

\* an except branch that counts the failed attempt as a use of the provider
AbandonCharged(S, error_msg, reason) ==
    LET q == S.q
        p == q.providers[q.idx]
    IN Enter([S EXCEPT
                !.q.errors = Append(@, p \o ": " \o Prefix(error_msg, 100)),
                !.providers[p].errors_today = @ + 1,
                !.providers[p].usage_today = @ + 1,
                !.providers[p].last_error = error_msg,
                !.q.abandoned = Append(@, [provider |-> p, reason |-> reason,
                                           first |-> q.ncalls = 1, called |-> q.ncalls >= 1]),
                !.q.idx = @ + 1])

\* the except branch of the entry point's provider loop
Abandon(S, error_msg, reason) ==
    LET q == S.q
        p == q.providers[q.idx]
    IN Enter([S EXCEPT
                !.q.errors = Append(@, p \o ": " \o Prefix(error_msg, 100)),
                !.providers[p].errors_today = @ + 1,
                !.providers[p].last_error = error_msg,
                !.q.abandoned = Append(@, [provider |-> p, reason |-> reason,
                                           first |-> q.ncalls = 1, called |-> q.ncalls >= 1]),
                !.q.idx = @ + 1])

----------------------------------------------------------------------------
(* Inputs of the requests and answers of the backends *)

\* user_id as the command layer may pass it: int tells isinstance(user_id, int)
UserIdInputs == {[int |-> TRUE, v |-> 1], [int |-> TRUE, v |-> 0],
                 [int |-> TRUE, v |-> -1], [int |-> FALSE, v |-> 1]}

ValidUser(uid) == uid.int /\ ~(uid.v <= 0)

\* the callers of the session store: two users with valid ids
SessionCallers == {[int |-> TRUE, v |-> 1], [int |-> TRUE, v |-> 2]}

Users == {uid.v : uid \in {u \in UserIdInputs \cup SessionCallers : ValidUser(u)}}

\* prompts around each entry point's length check: empty, blank, one short of the
\* minimum after stripping, and the shortest accepted
Prompts(service_type) ==
    CASE service_type = CHAT -> {"", "  ", " hi "}
      [] service_type = IMAGE -> {"", "  ", " hi ", "cat"}
      [] service_type = VIDEO -> {"", "  ", "cats", "a cat"}

\* a text of n characters
RECURSIVE TextOfLen(_)
TextOfLen(n) ==
    IF n = 0 THEN ""
    ELSE LET half == TextOfLen(n \div 2)
         IN half \o half \o (IF n % 2 = 1 THEN "a" ELSE "")

MaxLen(service_type) ==
    CASE service_type = CHAT -> max_len_chat
      [] service_type = IMAGE -> max_len_image
      [] service_type = VIDEO -> max_len_video

\* prompts around each entry point's upper length bound: one short of it, of its
\* length, and up to MaxExcess characters longer
LongPrompts(service_type) ==
    {TextOfLen(n) : n \in (MaxLen(service_type) - 1)..(MaxLen(service_type) + MaxExcess)}

Days == 0..MaxDay

QuotaKeys == {CacheKey(u, d, ServiceKey[st]) : u \in Users, d \in Days, st \in ServiceType}

\* what a backend may raise: quota-style, model-unavailable, and other failures
BackendErrors == {"429 quota exceeded", "404 model not found", "connection reset by peer"}

Failure(timeout, msg) == [kind |-> "error", timeout |-> timeout, msg |-> msg]

\* asyncio.TimeoutError: the call exceeded its timeout; str() of it is empty
Timeout == Failure(TRUE, "")

\* history: whether the message of a raised exception is quota-style or model-unavailable
FailureClass(error_msg) ==
    IF \E keyword \in {"429", "quota", "rate limit", "resource exhausted",
                        "404", "not found", "invalid model"} : Contains(error_msg, keyword)
    THEN "quota-style" ELSE "other"

\* the truthy value a backend call returns
BackendValue(call, service_type, t) ==
    CASE service_type = CHAT -> "reply of " \o call.target
      [] service_type = IMAGE /\ call.target = GOOGLE -> "downloads/img_" \o ToString(t) \o ".png"
      [] service_type = IMAGE /\ call.target = OPENAI -> "https://openai/image.png"
      [] service_type = IMAGE -> "data:image/png;base64,stability"
      [] service_type = VIDEO -> "https://luma/video.mp4"

\* OpenAI's SDK may answer with no content / no url; the other handlers raise instead
MayReturnEmpty(call) == call.target = OPENAI

\* the text _enhance_image_prompt / _enhance_video_prompt return without Gemini's help
FallbackPrompt(service_type, prompt, style) ==
    IF service_type = IMAGE
    THEN prompt \o ", " \o style \o " style, professional photography, detailed, 4k"
    ELSE prompt \o ", cinematic, 5 seconds, smooth camera movement, professional lighting"

\* shortest Gemini answer the enhancers accept (len(enhanced) > n)
enhance_min_image == 50
enhance_min_video == 100

\* answers of Gemini to an enhancement prompt: a long description, and a short one
EnhancedLong == "A cinematic wide shot, soft golden light, shallow depth of field, rich texture and detail, "
                    \o "slow dolly-in camera move, 35mm lens"
EnhancedShort == "A nice picture"

EnhanceResult(service_type, prompt, style, answer) ==
    LET enhanced == Strip(answer.text)
        least == IF service_type = IMAGE THEN enhance_min_image ELSE enhance_min_video
    IN IF answer.kind = "ok" /\ Truthy(answer.text) /\ Len(enhanced) > least
       THEN enhanced ELSE FallbackPrompt(service_type, prompt, style)

EnhanceAnswers == {[kind |-> "ok", text |-> EnhancedLong], [kind |-> "ok", text |-> EnhancedShort],
                   [kind |-> "ok", text |-> ""], [kind |-> "error", text |-> ""]}

----------------------------------------------------------------------------
(* The entry points chat_with_ai, generate_image, generate_video *)

\* the engine's working state while one request runs between two awaits
Work(q) == [providers |-> providers, chat_sessions |-> chat_sessions, q |-> q, t |-> now]

InvalidUserResult == Result(FALSE, "invalid_user", None, "invalid user id.")

TooShortResult(service_type) ==
    Result(FALSE, "too_short", None,
           CASE service_type = CHAT -> "the message is empty or too short."
             [] service_type = IMAGE -> "the description is too short (less than 3 characters)."
             [] service_type = VIDEO -> "the description is too short (less than 5 characters).")

QuotaResult(service_type, remaining) ==
    Result(FALSE, "quota", None,
           (CASE service_type = CHAT -> "you have used up your daily messages. ("
              [] service_type = IMAGE -> "the daily image allowance is used up. ("
              [] service_type = VIDEO -> "the daily video allowance is used up. (")
           \o ToString(remaining) \o " remaining)")

UnavailableResult(service_type) ==
    Result(FALSE, "unavailable", None, "all " \o service_type \o " services are unavailable now.")

\* what an entry point leaves when it returns or awaits
Left(S, cache) ==
    [providers |-> S.providers, chat_sessions |-> S.chat_sessions, cache |-> cache, q |-> S.q]

\* the entry point after the quota check allowed the request
Dispatch(P0, q1, cache, style) ==
    LET service_type == q1.service
        q2 == [q1 EXCEPT !.providers = get_available_providers(P0, service_type), !.idx = 1]
        google_config == P0[GOOGLE]
        S0 == [providers |-> P0, chat_sessions |-> chat_sessions, q |-> q2, t |-> now]
    IN  IF q2.providers = <<>>
        THEN Left([S0 EXCEPT !.q = [q1 EXCEPT !.pc = "done",
                                              !.result = UnavailableResult(service_type)]], cache)
        ELSE IF service_type = CHAT
        THEN Left(Enter(S0), cache)
        ELSE IF google_config.enabled /\ Truthy(DictGet(google_config.active_models, CHAT, None))
        THEN Left([S0 EXCEPT !.q.pc = "enhance",
                             !.q.call = [purpose |-> "enhance", via |-> GOOGLE, target |-> GOOGLE,
                                         model |-> google_config.active_models[CHAT],
                                         sent_to |-> google_config.active_models[CHAT],
                                         target_usable |-> Usable(google_config)]], cache)
        ELSE Left(Enter([S0 EXCEPT !.q.text = FallbackPrompt(service_type, q1.prompt, style)]), cache)

\* the entry point after check_user_limit answered chk
Checked(P0, q1, chk, style) ==
    IF ~chk.allowed
    THEN Left([providers |-> P0, chat_sessions |-> chat_sessions, t |-> now,
               q |-> [q1 EXCEPT !.pc = "done", !.result = QuotaResult(q1.service, chk.remaining)]],
              chk.cache)
    ELSE Dispatch(P0, q1, chk.cache, style)

\* the entry point after ensure_discovery
Validate(P0, service_type, uid, prompt, style) ==
    LET q0 == [IdleReq EXCEPT !.service = service_type, !.user_id = uid.v, !.prompt = prompt,
                              !.style = style, !.user_int = uid.int]
        S0 == [providers |-> P0, chat_sessions |-> chat_sessions, q |-> q0, t |-> now]
    IN  IF ~ValidUser(uid)
        THEN Left([S0 EXCEPT !.q.pc = "done", !.q.result = InvalidUserResult], user_limits_cache)
        ELSE IF ~Truthy(prompt) \/ Len(Strip(prompt)) < MinLen(service_type)
        THEN Left([S0 EXCEPT !.q.pc = "done", !.q.result = TooShortResult(service_type)],
                  user_limits_cache)
        ELSE Checked(P0, [q0 EXCEPT !.prompt = Truncate(service_type, prompt), !.text = @],
                     check_user_limit(user_limits_cache, db_usage, uid.v, ServiceKey[service_type],
                                      today, env.user_limit), style)

\* the entry point from its first line to its first backend call or its return:
\* the providers table, sessions, user cache and request it leaves
EntryPoint(service_type, uid, prompt, style) ==
    Validate(ensure_discovery(providers, discovery_completed, env), service_type, uid, prompt, style)

\* hashlib.md5(prompt.encode()).hexdigest()[:12]: a digest of 48 bits, which distinct
\* prompts may share; here the prompts that agree on their first FingerprintWidth
\* characters share it
Fingerprint(prompt) == "md5:" \o Prefix(prompt, FingerprintWidth)

\* cache_key = f"image_{user_id}_{fingerprint}" / f"video_{user_id}_{fingerprint}"
AssetKey(kind, user_id, prompt) == <<kind, user_id, Fingerprint(prompt)>>

\* an asset cache that keeps the entry a key already has
SaveAssetOnce(cache, kind, user_id, prompt, url, p, t) ==
    IF AssetKey(kind, user_id, prompt) \in DOMAIN cache THEN cache
    ELSE DictSet(cache, AssetKey(kind, user_id, prompt),
                 [url |-> url, prompt |-> prompt, provider |-> p, timestamp |-> t])

\* self.generated_files_cache[cache_key] = {...} of a successful generation
SaveAsset(cache, kind, user_id, prompt, url, p, t) ==
    DictSet(cache, AssetKey(kind, user_id, prompt),
            [url |-> url, prompt |-> prompt, provider |-> p, timestamp |-> t])

\* a request of one of the callers, with one of the given texts, enters chat_with_ai /
\* generate_image / generate_video
StartFrom(r, max, callers, texts) ==
    /\ req[r].pc = "idle"
    /\ started < max
    /\ \E service_type \in ServiceType, uid \in callers :
        \E prompt \in texts[service_type] :
        \E S \in {EntryPoint(service_type, uid, prompt, "realistic")} :
           /\ providers' = S.providers
           /\ chat_sessions' = S.chat_sessions
           /\ user_limits_cache' = S.cache
           /\ touch_order' = IF S.q.result.kind \in {"invalid_user", "too_short"} THEN touch_order
                             ELSE Touch(touch_order, CacheKey(uid.v, today, ServiceKey[service_type]), S.cache)
           /\ req' = [req EXCEPT ![r] = S.q]
    /\ discovery_completed' = TRUE
    /\ discoveries' = discoveries + (IF DiscoveryRuns(discovery_completed) THEN 1 ELSE 0)
    /\ started' = started + 1
    /\ UNCHANGED <<env, db_usage, db_log, generated_files_cache, today, now, commits, resets, trail>>

StartAs(r, max, callers) ==
    StartFrom(r, max, callers, [service_type \in ServiceType |-> Prompts(service_type)])

Start(r, max) == StartAs(r, max, UserIdInputs)

\* the enhancement call returns (or raises): the provider loop begins
EnhanceReturn(r) ==
    /\ req[r].pc = "enhance"
    /\ \E answer \in EnhanceAnswers :
        \E S \in {Enter(Work([req[r] EXCEPT
                            !.call = NoCall,
                            !.text = EnhanceResult(req[r].service, req[r].prompt, req[r].style, answer)]))} :
           /\ providers' = S.providers
           /\ chat_sessions' = S.chat_sessions
           /\ req' = [req EXCEPT ![r] = S.q]
    /\ UNCHANGED <<env, discoveries, discovery_completed, user_limits_cache, touch_order, db_usage, db_log,
                   generated_files_cache, today, now, started, commits, resets, trail>>

\* a count of usage that stops at the provider's daily limit
CountUsageCapped(P, p) ==
    [P EXCEPT ![p].usage_today = IF @ < P[p].daily_limit THEN @ + 1 ELSE @]

\* provider_config.usage_today += 1
CountUsage(P, p) == [P EXCEPT ![p].usage_today = @ + 1]

\* a generation call returns a truthy result: usage is recorded and the request returns
RespondOk(r) ==
    /\ req[r].pc = "call"
    /\ LET q == req[r]
           p == q.providers[q.idx]
           value == BackendValue(q.call, q.service, now)
           kind == IF q.service = IMAGE THEN "image" ELSE "video"
       IN \E upd \in {update_user_usage(user_limits_cache, db_usage, q.user_id,
                                         ServiceKey[q.service], today)} :
          /\ user_limits_cache' = upd.cache
          /\ touch_order' = Touch(touch_order, CacheKey(q.user_id, today, ServiceKey[q.service]), upd.cache)
          /\ db_usage' = upd.db
          /\ commits' = IF upd.ok
                         THEN [commits EXCEPT ![CacheKey(q.user_id, today, ServiceKey[q.service])] = @ + 1]
                         ELSE commits
          /\ providers' = CountUsage(providers, p)
          /\ db_log' = Append(db_log,
                IF q.service = CHAT
                THEN [table |-> "ai_conversations", user_id |-> q.user_id, kind |-> "chat",
                      input |-> q.prompt, output |-> value]
                ELSE [table |-> "generated_files", user_id |-> q.user_id, kind |-> kind,
                      input |-> q.prompt, output |-> value])
          /\ generated_files_cache' =
                IF q.service = CHAT THEN generated_files_cache
                ELSE SaveAsset(generated_files_cache, kind, q.user_id, q.prompt, value, p, now)
          /\ req' = [req EXCEPT ![r] =
                [q EXCEPT !.pc = "done", !.call = NoCall, !.last_failure = None,
                          !.result = Result(TRUE, "success", value,
                                            CASE q.service = CHAT -> ""
                                              [] q.service = IMAGE -> "the image was created"
                                              [] q.service = VIDEO -> "the video was created")]]
    /\ UNCHANGED <<env, discoveries, discovery_completed, chat_sessions, today, now, started, resets, trail>>

\* a loop that gives the provider up for a falsy result as it does for an exception
RespondEmptyAbandons(r) ==
    /\ req[r].pc = "call"
    /\ MayReturnEmpty(req[r].call)
    /\ \E S \in {Abandon(Work([req[r] EXCEPT !.call = NoCall, !.last_failure = None]),
                          "empty result", "break")} :
          /\ providers' = S.providers
          /\ chat_sessions' = S.chat_sessions
          /\ req' = [req EXCEPT ![r] = S.q]
    /\ UNCHANGED <<env, discoveries, discovery_completed, user_limits_cache, touch_order, db_usage, db_log,
                   generated_files_cache, today, now, started, commits, resets, trail>>

\* a generation call returns a falsy result: the loop goes on with the next provider
RespondEmpty(r) ==
    /\ req[r].pc = "call"
    /\ MayReturnEmpty(req[r].call)
    /\ \E S \in {Enter(Work([req[r] EXCEPT !.call = NoCall, !.idx = @ + 1, !.last_failure = None]))} :
          /\ providers' = S.providers
          /\ chat_sessions' = S.chat_sessions
          /\ req' = [req EXCEPT ![r] = S.q]
    /\ UNCHANGED <<env, discoveries, discovery_completed, user_limits_cache, touch_order, db_usage, db_log,
                   generated_files_cache, today, now, started, commits, resets, trail>>

\* a generation call ends with the given failure: rotation, abandonment, the next
\* call or the return
RespondWith(r, failure) ==
    /\ req[r].pc = "call"
    /\ \E error_msg \in {HandlerError(req[r].providers[req[r].idx], req[r].service, failure)} :
        \E S \in {Failed(Work([req[r] EXCEPT !.call = NoCall,
                                              !.last_failure = FailureClass(error_msg)]), error_msg)} :
           /\ providers' = S.providers
           /\ chat_sessions' = S.chat_sessions
           /\ req' = [req EXCEPT ![r] = S.q]
    /\ UNCHANGED <<env, discoveries, discovery_completed, user_limits_cache, touch_order, db_usage, db_log,
                   generated_files_cache, today, now, started, commits, resets, trail>>

\* a generation call raises
RespondError(r) ==
    \E failure \in {Failure(FALSE, m) : m \in BackendErrors} \cup {Timeout} :
        RespondWith(r, failure)

\* the caller takes the returned value: the coroutine is gone
Finish(r) ==
    /\ req[r].pc = "done"
    /\ req' = [req EXCEPT ![r] = IdleReq]
    /\ UNCHANGED <<env, discoveries, providers, discovery_completed, user_limits_cache, touch_order, db_usage, db_log,
                   chat_sessions, generated_files_cache, today, now, started, commits, resets, trail>>

\* reset_daily_counts
reset_daily_counts ==
    /\ resets < MaxResets
    /\ resets' = resets + 1
    /\ user_limits_cache' = ResetCache(user_limits_cache, today)
    /\ touch_order' = StillCached(touch_order, user_limits_cache')
    /\ providers' = ResetProviders(providers)
    /\ UNCHANGED <<env, discoveries, discovery_completed, db_usage, db_log, chat_sessions,
                   generated_files_cache, today, now, req, started, commits, trail>>

\* bot.py reset_cache_command: reset_daily_counts(), then user_limits_cache.clear()
reset_cache_command ==
    /\ resets < MaxResets
    /\ resets' = resets + 1
    /\ user_limits_cache' = <<>>
    /\ touch_order' = <<>>
    /\ providers' = ResetProviders(providers)
    /\ UNCHANGED <<env, discoveries, discovery_completed, db_usage, db_log, chat_sessions,
                   generated_files_cache, today, now, req, started, commits, trail>>

----------------------------------------------------------------------------
(* Specification of the engine: one request at a time *)

Requests == {1, 2}

EnvOf(valid, live, user_limit, daily_limit) ==
    [keys |-> [p \in Provider |-> IF p \in valid THEN ValidKey[p] ELSE None],
     live |-> live, sdk_fail |-> {}, body_fail |-> None, db_fail |-> {},
     user_limit |-> user_limit,
     daily_limit |-> [p \in Provider |-> daily_limit]]

\* the limits_config of check_user_limit: a chat allowance of MaxUserLimit, and the
\* smallest allowance for images and videos
UserLimits == [k \in {ServiceKey[st] : st \in ServiceType} |->
    IF k = ServiceKey[CHAT] THEN MaxUserLimit ELSE 1]

LiveRaises == [raises |-> TRUE, names |-> <<>>]
LiveList(names) == [raises |-> FALSE, names |-> names]

\* the environments of the engine's specification: every key set, a live model list
\* with two chat and two video models; and Google alone on its static list
EngineLive == LiveList(<<"models/veo-2.0-generate-001", "models/gemini-2.0-flash",
                         "models/veo-3.0-generate-001", "models/gemini-3-pro-preview">>)

EngineEnvs ==
    {EnvOf(Provider, EngineLive, UserLimits, MaxDailyLimit),
     EnvOf({GOOGLE}, LiveRaises, UserLimits, MaxDailyLimit),
     EnvOf({OPENAI, STABILITY, KLING}, LiveRaises, UserLimits, MaxDailyLimit)}

\* history of a run of rotate_model calls: the provider and capability rotated, the
\* model the first call was passed, and the models the calls returned
NoTrail == [provider |-> None, service |-> None, start |-> None, returned |-> <<>>]

InitManager(e) ==
    /\ env = e
    /\ providers = _init_providers(e)
    /\ discovery_completed = FALSE
    /\ user_limits_cache = <<>>
    /\ db_usage = [k \in QuotaKeys |-> 0]
    /\ db_log = <<>>
    /\ chat_sessions = EmptyDict
    /\ generated_files_cache = EmptyDict
    /\ today = 0
    /\ now = 0
    /\ req = [r \in Requests |-> IdleReq]
    /\ started = 0
    /\ commits = [k \in QuotaKeys |-> 0]
    /\ resets = 0
    /\ trail = NoTrail
    /\ discoveries = 0
    /\ touch_order = <<>>

Init == \E e \in EngineEnvs : InitManager(e)

Next ==
    \/ Start(1, MaxRequests)
    \/ EnhanceReturn(1)
    \/ RespondOk(1)
    \/ RespondEmpty(1)
    \/ RespondError(1)
    \/ Finish(1)
    \/ reset_daily_counts
    \/ reset_cache_command

Spec == Init /\ [][Next]_vars

----------------------------------------------------------------------------
(* Specification of the quota: Google alone with one live chat model, so that a
   request is short; one more request than in Spec, and a daily limit of the
   provider that these requests do not reach *)

QuotaLive == LiveList(<<"models/gemini-2.0-flash">>)

InitQuota == InitManager(EnvOf({GOOGLE}, QuotaLive, UserLimits, MaxDailyLimit + 2))

NextQuota ==
    \/ Start(1, MaxRequests + 1)
    \/ EnhanceReturn(1)
    \/ RespondOk(1)
    \/ RespondError(1)
    \/ Finish(1)
    \/ reset_daily_counts
    \/ reset_cache_command

SpecQuota == InitQuota /\ [][NextQuota]_vars

----------------------------------------------------------------------------
(* Specification of concurrent requests: two request coroutines on the event loop,
   interleaved at their backend calls, each of which the caller may cancel; Google
   alone with one live chat model and one live image model *)

\* the task of the request is cancelled while it waits for a backend call:
\* asyncio.CancelledError is no Exception, so no except branch of the handlers, of
\* _execute_with_fallback or of the entry point catches it
Cancel(r) ==
    /\ req[r].pc \in {"call", "enhance"}
    /\ req' = [req EXCEPT ![r] = [@ EXCEPT !.pc = "cancelled", !.call = NoCall]]
    /\ UNCHANGED <<env, discoveries, providers, discovery_completed, user_limits_cache, touch_order, db_usage,
                   db_log, chat_sessions, generated_files_cache, today, now, started, commits,
                   resets, trail>>

\* the CancelledError leaves the entry point: the coroutine is gone
Propagate(r) ==
    /\ req[r].pc = "cancelled"
    /\ req' = [req EXCEPT ![r] = IdleReq]
    /\ UNCHANGED <<env, discoveries, providers, discovery_completed, user_limits_cache, touch_order, db_usage,
                   db_log, chat_sessions, generated_files_cache, today, now, started, commits,
                   resets, trail>>

RaceLive == LiveList(<<"models/gemini-2.0-flash", "models/imagen-3.0-generate-001">>)

InitRace == InitManager(EnvOf({GOOGLE}, RaceLive, UserLimits, MaxDailyLimit))

NextRace ==
    \E r \in Requests :
        \/ Start(r, MaxRequests + 1)
        \/ EnhanceReturn(r)
        \/ RespondOk(r)
        \/ RespondError(r)
        \/ Finish(r)
        \/ Cancel(r)
        \/ Propagate(r)

SpecRace == InitRace /\ [][NextRace]_vars

----------------------------------------------------------------------------
(* Specification of long inputs: requests of one user, one after another, with
   prompts around the upper length bounds; Google alone with one live chat model
   and one live image model *)

LongCallers == {[int |-> TRUE, v |-> 1]}

NextLong ==
    \/ StartFrom(1, MaxRequests + 1, LongCallers,
                 [service_type \in ServiceType |-> LongPrompts(service_type)])
    \/ EnhanceReturn(1)
    \/ RespondOk(1)
    \/ RespondError(1)
    \/ Finish(1)

SpecLong == InitRace /\ [][NextLong]_vars

----------------------------------------------------------------------------
(* Specification of the asset cache: requests of two users, one after another,
   with several prompts per capability, two of them sharing a fingerprint, and
   allowances that let a user succeed in every request; Google and Luma with one
   live chat model, one live image model and one live video model *)

AssetLive == LiveList(<<"models/gemini-2.0-flash", "models/imagen-3.0-generate-001",
                        "models/veo-2.0-generate-001">>)

AssetLimits == [k \in {ServiceKey[st] : st \in ServiceType} |-> MaxRequests + 1]

AssetPrompts(service_type) ==
    CASE service_type = CHAT -> {" hi "}
      [] service_type = IMAGE -> {"cat", "cats", "dog"}
      [] service_type = VIDEO -> {"a cat", "a dog"}

InitAssets == InitManager(EnvOf({GOOGLE, LUMA}, AssetLive, AssetLimits, MaxRequests + 1))

NextAssets ==
    \/ StartFrom(1, MaxRequests + 1, SessionCallers,
                 [service_type \in ServiceType |-> AssetPrompts(service_type)])
    \/ EnhanceReturn(1)
    \/ RespondOk(1)
    \/ RespondError(1)
    \/ Finish(1)

SpecAssets == InitAssets /\ [][NextAssets]_vars

----------------------------------------------------------------------------
(* Specification of the session store: requests of two users, one after another,
   over some hours; Google alone with one live chat model *)

\* datetime.now() advances by an hour
Tick ==
    /\ now < MaxNow
    /\ now' = now + 1
    /\ UNCHANGED <<env, discoveries, providers, discovery_completed, user_limits_cache, touch_order, db_usage,
                   db_log, chat_sessions, generated_files_cache, today, req, started, commits,
                   resets, trail>>

NextSessions ==
    \/ StartAs(1, MaxRequests + 1, SessionCallers)
    \/ EnhanceReturn(1)
    \/ RespondOk(1)
    \/ RespondError(1)
    \/ Finish(1)
    \/ Tick

SpecSessions == InitQuota /\ [][NextSessions]_vars

----------------------------------------------------------------------------
(* Specification of the session sweep: chat requests of one user, one after
   another, over some hours; Google with one live chat model and a daily limit
   that its first answer reaches, and OpenAI *)

ChatOnly == [service_type \in ServiceType |-> IF service_type = CHAT THEN {" hi "} ELSE {}]

InitSweep ==
    InitManager([EnvOf({GOOGLE, OPENAI}, QuotaLive, UserLimits, MaxDailyLimit + 1)
                    EXCEPT !.daily_limit[GOOGLE] = MaxDailyLimit])

\* an hour passes between two requests (a backend call lasts a minute at most)
Pause ==
    /\ \A r \in Requests : req[r].pc = "idle"
    /\ Tick

NextSweep ==
    \/ StartFrom(1, MaxRequests + 1, LongCallers, ChatOnly)
    \/ RespondOk(1)
    \/ RespondError(1)
    \/ Finish(1)
    \/ Pause

SpecSweep == InitSweep /\ [][NextSweep]_vars

----------------------------------------------------------------------------
(* Specification of the engine after a discovery whose body raised: Google alone
   with a live list of two chat models and one image model, and an exception at the
   start of _setup_and_discover_async, or before _select_best_models, or none *)

FaultyLive ==
    LiveList(<<"models/gemini-2.0-flash", "models/gemini-2.5-pro", "models/imagen-3.0-generate-001">>)

FaultyEnvs ==
    {[EnvOf({GOOGLE}, FaultyLive, UserLimits, MaxDailyLimit) EXCEPT !.body_fail = b] :
        b \in {"start", "others", None}}

InitFaulty == \E e \in FaultyEnvs : InitManager(e)

SpecFaulty == InitFaulty /\ [][NextQuota]_vars

----------------------------------------------------------------------------
(* Specification of the order of the backends: the keys of Google, OpenAI and
   Stability set, one live chat model; a daily limit that one success reaches for
   Google and does not reach for the others, so that the list of the second request
   leaves a provider out or is ordered by errors and by usage *)

InitOrder ==
    InitManager([EnvOf({GOOGLE, OPENAI, STABILITY}, QuotaLive, UserLimits, MaxDailyLimit + 1)
                    EXCEPT !.daily_limit[GOOGLE] = MaxDailyLimit])

SpecOrder == InitOrder /\ [][Next]_vars

----------------------------------------------------------------------------
(* Specification of the catalog: discovery over the live lists genai.list_models()
   may answer, then runs of rotate_model *)

RECURSIVE DistinctSeqs(_, _)
\* the sequences of at most n distinct elements of S
DistinctSeqs(S, n) ==
    IF n = 0 THEN {<<>>}
    ELSE LET shorter == DistinctSeqs(S, n - 1)
         IN shorter \cup UNION {{Append(q, x) : x \in S \ {q[i] : i \in 1..Len(q)}} : q \in shorter}

\* every key set; list_models answers a list of distinct names or raises; or the
\* configuration of one SDK raises; or the keys have any of the shapes
CatalogEnvs ==
    {EnvOf(Provider, LiveList(names), UserLimits, MaxDailyLimit) : names \in DistinctSeqs(LiveNames, MaxLive)}
    \cup {[EnvOf(Provider, LiveRaises, UserLimits, MaxDailyLimit) EXCEPT !.sdk_fail = f] :
                f \in {{}, {GOOGLE}, {OPENAI}}}
    \cup {[EnvOf(Provider, LiveRaises, UserLimits, MaxDailyLimit) EXCEPT
                !.keys = [p \in Provider |-> CASE p = GOOGLE -> g [] p = OPENAI -> o [] OTHER -> k]] :
                g \in KeyShapes(GOOGLE), o \in KeyShapes(OPENAI), k \in KeyShapes(STABILITY)}

InitCatalog == \E e \in CatalogEnvs : InitManager(e)

\* ensure_discovery, called before any request
Discover ==
    /\ ~discovery_completed
    /\ providers' = ensure_discovery(providers, discovery_completed, env)
    /\ discovery_completed' = TRUE
    /\ discoveries' = discoveries + (IF DiscoveryRuns(discovery_completed) THEN 1 ELSE 0)
    /\ UNCHANGED <<env, user_limits_cache, touch_order, db_usage, db_log, chat_sessions, generated_files_cache,
                   today, now, req, started, commits, resets, trail>>

\* rotate_model(p, service_type, start) for a model of the list
RotateFirst(p, service_type) ==
    /\ discovery_completed
    /\ trail = NoTrail
    /\ \E start \in {m.name : m \in
                        {DictGet(providers[p].discovered_models, service_type, <<>>)[i] :
                           i \in 1..Len(DictGet(providers[p].discovered_models, service_type, <<>>))}} :
          trail' = [provider |-> p, service |-> service_type, start |-> start,
                    returned |-> <<RotateTarget(providers[p], service_type, start)>>]
    /\ providers' = rotate_model(providers, p, service_type, trail'.start)
    /\ UNCHANGED <<env, discoveries, discovery_completed, user_limits_cache, touch_order, db_usage, db_log, chat_sessions,
                   generated_files_cache, today, now, req, started, commits, resets>>

\* rotate_model(p, service_type, the model the previous call returned)
RotateNext ==
    /\ trail # NoTrail
    /\ Len(trail.returned) < Len(providers[trail.provider].discovered_models[trail.service])
    /\ LET current_model == trail.returned[Len(trail.returned)]
       IN /\ trail' = [trail EXCEPT !.returned =
                          Append(@, RotateTarget(providers[trail.provider], trail.service, current_model))]
          /\ providers' = rotate_model(providers, trail.provider, trail.service, current_model)
    /\ UNCHANGED <<env, discoveries, discovery_completed, user_limits_cache, touch_order, db_usage, db_log, chat_sessions,
                   generated_files_cache, today, now, req, started, commits, resets>>

NextCatalog ==
    \/ Discover
    \/ \E p \in Provider, service_type \in ServiceType : RotateFirst(p, service_type)
    \/ RotateNext

SpecCatalog == InitCatalog /\ [][NextCatalog]_vars

----------------------------------------------------------------------------
(* Properties of the fallback engine and of the quota *)

\* the request r receives the answer of its generation call in this step
Responded(r) == req[r].pc = "call" /\ req'[r] # req[r]

\* the request r enters its entry point in this step
Entered(r) == req[r].pc = "idle" /\ req'[r].pc # "idle"

AbandonedProviders(q, reasons) ==
    {q.abandoned[i].provider : i \in {j \in 1..Len(q.abandoned) : q.abandoned[j].reason \in reasons}}

RankedModels(p, service_type) == DictGet(providers[p].discovered_models, service_type, <<>>)

\* usage_today, errors_today and last_error of every provider
Counters(P) == [p \in Provider |-> <<P[p].usage_today, P[p].errors_today, P[p].last_error>>]

\* this step gives up the provider p of request r and moves on in the list
GivesUp(r, p) ==
    /\ Len(req'[r].abandoned) > Len(req[r].abandoned)
    /\ req'[r].abandoned[Len(req[r].abandoned) + 1].provider = p
    /\ SubSeq(req'[r].abandoned, 1, Len(req[r].abandoned)) = req[r].abandoned
    /\ req'[r].idx > req[r].idx
    /\ req'[r].pc = "call" => /\ req'[r].call.via = req'[r].providers[req'[r].idx]
                              /\ req'[r].call.via # p

\* the retry budgets the entry points are said to pass
Budget(service_type) ==
    CASE service_type = CHAT -> 16 [] service_type = IMAGE -> 6 [] service_type = VIDEO -> 6

C1_Step(r) ==
    LET q == req[r]
        p == q.call.via
    IN  (Responded(r) /\ req'[r].last_failure = "quota-style"
            /\ Len(RankedModels(p, q.service)) >= 2)
        => IF q.ncalls < Budget(q.service)
           THEN /\ req'[r].pc = "call"
                /\ req'[r].call.via = p
                /\ req'[r].ncalls = q.ncalls + 1
                /\ req'[r].abandoned = q.abandoned
                /\ req'[r].idx = q.idx
           ELSE /\ q.ncalls = Budget(q.service)
                /\ GivesUp(r, p)

C1_NoReturn(r) ==
    req[r].pc = "call" =>
        /\ req[r].call.via \notin AbandonedProviders(req[r], {"budget", "break", "disabled"})
        /\ req[r].call.target \notin AbandonedProviders(req[r], {"budget"})

\* C1: a backend with two or more ranked models whose calls all fail with quota-style
\* or model-unavailable errors is called exactly 16 (chat) / 6 (image) / 6 (video)
\* times: each such failure below the budget is followed by one more call to the same
\* backend, the failure of the last call of the budget gives the backend up and moves
\* to the next backend in the list, and no later call of the request goes to it.
C1_QuotaBudget ==
    [][\A r \in Requests : C1_Step(r)]_vars /\ [](\A r \in Requests : C1_NoReturn(r))

C1_Witness ==
    \E r \in Requests :
        /\ req[r].pc = "call"
        /\ req[r].service = CHAT
        /\ \E i \in 1..Len(req[r].abandoned) : req[r].abandoned[i].reason = "budget"

C2_Step(r) ==
    LET q == req[r]
        p == q.call.via
    IN  (Responded(r) /\ q.ncalls = 1 /\ req'[r].last_failure = "other")
        => /\ GivesUp(r, p)
           /\ req'[r].abandoned[Len(q.abandoned) + 1].first
           /\ providers'[p].active_models = providers[p].active_models
           /\ providers'[p].discovered_models = providers[p].discovered_models

\* C2: when the first call to a backend in a request fails with an error that is
\* neither quota-style nor model-unavailable (a timeout included), that call stays the
\* only one to the backend: the step gives the backend up without rotating its active
\* model and moves to the next backend in the list.
C2_FirstFailureBreaks == [][\A r \in Requests : C2_Step(r)]_vars

C2_Witness ==
    \E r \in Requests :
        /\ req[r].pc = "call"
        /\ req[r].last_failure = "other"
        /\ req[r].abandoned # <<>>
        /\ req[r].abandoned[Len(req[r].abandoned)].first
        /\ req[r].abandoned[Len(req[r].abandoned)].reason = "break"

\* C3: every backend call in flight, generation or prompt enhancement, and also the
\* one a video handler passes on to Luma, goes to a backend that was enabled and below
\* its daily limit when the call was issued.
C3_CallsOnlyUsable ==
    \A r \in Requests : req[r].pc \in {"call", "enhance"} => req[r].call.target_usable

C4_Step(r) ==
    LET q == req[r]
        p == q.providers[q.idx]
        key == CacheKey(q.user_id, today, ServiceKey[q.service])
        kind == IF q.service = IMAGE THEN "image" ELSE "video"
    IN  (Responded(r) /\ req'[r].pc = "done" /\ req'[r].result.ok)
        => /\ providers'[p].usage_today = providers[p].usage_today + 1
           /\ \A o \in Provider \ {p} : providers'[o] = providers[o]
           /\ CacheGet(user_limits_cache', key, 0) = CacheGet(user_limits_cache, key, 0) + 1
           /\ db_usage' = [db_usage EXCEPT ![key] = @ + 1]
           /\ Len(db_log') = Len(db_log) + 1
           /\ SubSeq(db_log', 1, Len(db_log)) = db_log
           /\ db_log'[Len(db_log')].user_id = q.user_id
           /\ db_log'[Len(db_log')].input = q.prompt
           /\ db_log'[Len(db_log')].output = req'[r].result.value
           /\ db_log'[Len(db_log')].table =
                  (IF q.service = CHAT THEN "ai_conversations" ELSE "generated_files")
           /\ q.service # CHAT =>
                  /\ AssetKey(kind, q.user_id, q.prompt) \in DOMAIN generated_files_cache'
                  /\ generated_files_cache'[AssetKey(kind, q.user_id, q.prompt)].url = req'[r].result.value
                  /\ generated_files_cache'[AssetKey(kind, q.user_id, q.prompt)].provider = p
           /\ Truthy(req'[r].result.value)
           /\ req'[r].call = NoCall
           /\ req'[r].idx = q.idx
           /\ req'[r].ncalls = q.ncalls
           /\ req'[r].abandoned = q.abandoned

\* C4: the step in which a backend call returns a result adds exactly 1 to that
\* backend's usage_today and to no other backend's, adds exactly 1 to the user's
\* (user, day, capability) count in the cache and in the durable table, appends the
\* record of the turn or of the generated asset, and ends the request with that result:
\* no further call is issued, the backends later in the list are not contacted.
C4_FirstSuccessReturns == [][\A r \in Requests : C4_Step(r)]_vars

C4_Witness ==
    \E r \in Requests :
        /\ req[r].pc = "done"
        /\ req[r].result.ok
        /\ req[r].abandoned # <<>>
        /\ req[r].idx < Len(req[r].providers)

ResultKinds == {"success", "invalid_user", "too_short", "quota", "unavailable", "all_failed", "unexpected"}

C6_QuotaMonotone ==
    \A u \in Users, st \in ServiceType :
        LET n == commits[CacheKey(u, today, ServiceKey[st])]
            limit == env.user_limit[ServiceKey[st]]
            chk == check_user_limit(user_limits_cache, db_usage, u, ServiceKey[st], today,
                                    env.user_limit)
        IN  IF n < limit THEN chk.allowed /\ chk.remaining = limit - n
            ELSE ~chk.allowed /\ chk.remaining = 0

\* the input of the request entering in this step passes the entry point's validation
ValidInput(q) ==
    /\ q.user_int
    /\ q.user_id > 0
    /\ q.prompt # ""
    /\ Len(Strip(q.prompt)) >= (CASE q.service = CHAT -> 1 [] q.service = IMAGE -> 3
                                   [] q.service = VIDEO -> 5)

C7_Step(r) ==
    LET q == req'[r]
    IN  (Entered(r) /\ ValidInput(q)
            /\ db_usage[CacheKey(q.user_id, today, ServiceKey[q.service])]
                   >= env.user_limit[ServiceKey[q.service]])
        => /\ q.pc = "done"
           /\ q.result = QuotaResult(q.service, 0)
           /\ q.call = NoCall
           /\ q.ncalls = 0
           /\ Counters(providers') = Counters(providers)
           /\ db_usage' = db_usage
           /\ generated_files_cache' = generated_files_cache

\* C7: a request of a user whose count for the day already meets the limit of the
\* capability returns the quota refusal with 0 remaining, issues no backend call
\* (generation or enhancement), and leaves every backend's usage_today, errors_today
\* and last_error, the user's durable count and the asset cache as they were.
C7_ExhaustedQuotaRefused == [][\A r \in Requests : C7_Step(r)]_vars

C8_Step(r) ==
    LET q == req'[r]
    IN  (Entered(r) /\ ~ValidInput(q))
        => /\ q.pc = "done"
           /\ ~q.result.ok
           /\ q.result.kind = (IF q.user_int /\ q.user_id > 0 THEN "too_short" ELSE "invalid_user")
           /\ q.call = NoCall
           /\ q.ncalls = 0
           /\ q.providers = <<>>
           /\ user_limits_cache' = user_limits_cache
           /\ db_usage' = db_usage
           /\ commits' = commits
           /\ Counters(providers') = Counters(providers)

\* C8: a request with a user id that is not a positive integer, or with a prompt that
\* is empty or shorter after stripping than 1 (chat), 3 (image) or 5 (video)
\* characters, is rejected in its first step, before the quota check (the quota cache
\* is not read into or touched) and before any backend call; the user's counts and
\* every backend's counters are unchanged.
C8_InvalidInputRejected == [][\A r \in Requests : C8_Step(r)]_vars

C8_Witness ==
    \E r \in Requests :
        /\ req[r].pc = "done"
        /\ req[r].result.kind = "too_short"
        /\ req[r].service = VIDEO
        /\ Len(Strip(req[r].prompt)) = 4

\* the position of a name in a list of names
Pos(names, name) == CHOOSE i \in 1..Len(names) : names[i] = name

\* C9: for a backend and capability with k ranked models, a run of rotate_model calls
\* that starts from any model of the list and passes each call the model the previous
\* one returned gets, call after call, the models that follow the start in ranked
\* order, wrapping from the last to the first; after k calls it has returned each of
\* the k models exactly once; and every model returned is in discovered_models of that
\* backend and capability.
C9_RotationIsCyclic ==
    trail # NoTrail =>
        LET models == providers[trail.provider].discovered_models[trail.service]
            k == Len(models)
            s == Pos(Names(models), trail.start)
            n == Len(trail.returned)
        IN  /\ n <= k
            /\ \A i \in 1..n :
                  /\ trail.returned[i] = models[((s - 1 + i) % k) + 1].name
                  /\ \E j \in 1..k : /\ models[j].name = trail.returned[i]
                                     /\ models[j].service_type = trail.service
                                     /\ models[j].provider = trail.provider
            /\ \A i, j \in 1..n : i # j => trail.returned[i] # trail.returned[j]
            /\ n = k => {trail.returned[i] : i \in 1..n} = {models[i].name : i \in 1..k}
            /\ providers[trail.provider].active_models[trail.service] = trail.returned[n]

C9_Witness ==
    /\ trail # NoTrail
    /\ Len(trail.returned) = Len(providers[trail.provider].discovered_models[trail.service])
    /\ Len(trail.returned) >= 3
    /\ trail.start = providers[trail.provider].discovered_models[trail.service][2].name
    /\ trail.returned[Len(trail.returned)] = trail.start

\* the names discovery classified for a provider and capability, in discovery order
RawNames(p, service_type) ==
    IF p = GOOGLE
    THEN IF env.live.raises THEN GoogleFallbackModels
         ELSE [i \in 1..Len(env.live.names) |-> Remove(env.live.names[i], "models/")]
    ELSE IF p = OPENAI /\ service_type \in DOMAIN known_openai_models
         THEN known_openai_models[service_type]
    ELSE <<>>

\* C10: once discovery has completed, for every enabled backend and every capability
\* the list discovered_models[capability] is ascending in priority, entries of equal
\* priority stand in the order in which discovery met them, and, before any rotation,
\* a non-empty list has its first entry, one of least priority, as the active model.
C10_RankedAfterDiscovery ==
    discovery_completed =>
        \A p \in Provider, st \in ServiceType :
            providers[p].enabled =>
                LET models == DictGet(providers[p].discovered_models, st, <<>>)
                    raw == RawNames(p, st)
                IN  /\ \A i, j \in 1..Len(models) :
                          i < j => /\ models[i].priority <= models[j].priority
                                   /\ models[i].priority = models[j].priority
                                        => Pos(raw, models[i].name) < Pos(raw, models[j].name)
                    /\ \A i \in 1..Len(models) :
                          /\ models[i].service_type = st
                          /\ \E j \in 1..Len(raw) : raw[j] = models[i].name
                    /\ (trail = NoTrail /\ models # <<>>) =>
                          /\ st \in DOMAIN providers[p].active_models
                          /\ providers[p].active_models[st] = models[1].name
                          /\ \A i \in 1..Len(models) : models[1].priority <= models[i].priority

C10_Witness ==
    /\ discovery_completed
    /\ trail = NoTrail
    /\ providers[GOOGLE].enabled
    /\ Names(providers[GOOGLE].discovered_models[VIDEO]) = <<"veo-3.0-generate-001", "veo-2.0-generate-001">>
    /\ Len(providers[GOOGLE].discovered_models[CHAT]) >= 1
    /\ providers[GOOGLE].active_models[VIDEO] = "veo-3.0-generate-001"

\* C11: under every interleaving of concurrent requests, cancelled ones included,
\* the discovery body _setup_and_discover_async is started at most once in the
\* process, and every request that is past ensure_discovery finds a discovery that
\* has run and finished.
C11_DiscoveryOnce ==
    /\ discoveries <= 1
    /\ discovery_completed <=> discoveries = 1
    /\ \A r \in Requests : req[r].pc # "idle" => discovery_completed

C11_Witness ==
    /\ started = 2
    /\ discoveries = 1
    /\ \E r, o \in Requests : req[r].pc = "cancelled" /\ req[o].pc = "call"

\* a Google chat call of request r is issued in this step (_chat_with_google runs
\* up to its await)
GoogleChatCall(r) ==
    /\ req'[r].pc = "call"
    /\ req'[r].service = CHAT
    /\ req'[r].call.via = GOOGLE
    /\ req'[r].ncalls = (IF req[r].pc = "idle" THEN 0 ELSE req[r].ncalls) + 1

Idle(session) == now - session.last_activity

C12_Step(r) ==
    LET u == req'[r].user_id
    IN  GoogleChatCall(r) =>
           \* the sweep removes every session idle for more than the timeout...
           /\ \A v \in DOMAIN chat_sessions :
                 Idle(chat_sessions[v]) > session_timeout /\ v # u => v \notin DOMAIN chat_sessions'
           \* ...and keeps the others as they are
           /\ \A v \in DOMAIN chat_sessions :
                 Idle(chat_sessions[v]) <= session_timeout =>
                    /\ v \in DOMAIN chat_sessions'
                    /\ chat_sessions'[v].created = chat_sessions[v].created
                    /\ chat_sessions'[v].chat = chat_sessions[v].chat
                    /\ v # u => chat_sessions'[v] = chat_sessions[v]
           \* the caller talks to a session touched now: a new object when it had
           \* none or a stale one
           /\ u \in DOMAIN chat_sessions'
           /\ chat_sessions'[u].last_activity = now
           /\ (u \notin DOMAIN chat_sessions \/ Idle(chat_sessions[u]) > session_timeout)
                 => /\ chat_sessions'[u].created = now
                    /\ chat_sessions'[u].chat = req'[r].call.model
           /\ (u \in DOMAIN chat_sessions /\ Idle(chat_sessions[u]) > session_timeout)
                 => /\ chat_sessions'[u].created # chat_sessions[u].created
                    /\ chat_sessions'[u].replaced
           /\ DOMAIN chat_sessions' \subseteq DOMAIN chat_sessions \cup {u}

\* C12: a Google chat call sweeps every session idle for more than one hour and
\* keeps, untouched, every session idle for one hour or less; the caller whose
\* session was stale (or absent) talks to a new session object; the store is keyed
\* by user, and nothing but a Google chat call changes it.
C12_StaleSessionsReplaced ==
    [][/\ \A r \in Requests : C12_Step(r)
       /\ (\A r \in Requests : ~GoogleChatCall(r)) => chat_sessions' = chat_sessions
       /\ DOMAIN chat_sessions' \subseteq Users]_vars

\* user 1 talks to a session that replaced its stale one while the session of user 2,
\* idle for exactly the timeout, was kept
C12_Witness ==
    /\ 1 \in DOMAIN chat_sessions /\ 2 \in DOMAIN chat_sessions
    /\ chat_sessions[1].replaced /\ chat_sessions[1].created = now
    /\ Idle(chat_sessions[2]) = session_timeout
    /\ \E r \in Requests : req[r].pc = "call" /\ req[r].user_id = 1

\* the backends the request r gives up in this step, as positions of req'[r].abandoned
GivenUpNow(r) ==
    IF req'[r].pc = "idle" \/ ~(Entered(r) \/ req[r].pc \in {"call", "enhance"}) THEN {}
    ELSE (Len(req[r].abandoned) + 1)..Len(req'[r].abandoned)

C13_Step(r) ==
    LET q == req[r]
        new == GivenUpNow(r)
    IN  /\ \A i \in new :
             LET p == req'[r].abandoned[i].provider
             IN /\ req'[r].abandoned[i].reason \in {"budget", "break"}
                /\ providers'[p].errors_today = providers[p].errors_today + 1
                /\ providers'[p].last_error = AllAttemptsFailed(p, req'[r].service)
                /\ providers'[p].usage_today = providers[p].usage_today
                /\ req'[r].errors[i] = p \o ": " \o Prefix(providers'[p].last_error, 100)
                /\ \A j \in 1..Len(req'[r].abandoned) : j # i => req'[r].abandoned[j].provider # p
        /\ new # {} =>
             /\ Len(req'[r].errors) = Len(req'[r].abandoned)
             /\ SubSeq(req'[r].errors, 1, Len(q.errors)) = q.errors
             /\ \A p \in Provider :
                  p \notin {req'[r].abandoned[i].provider : i \in new}
                     => providers'[p].errors_today = providers[p].errors_today
        /\ (Responded(r) /\ req'[r].pc = "done" /\ req'[r].result.ok /\ q.abandoned # <<>>) =>
             LET p == q.providers[q.idx]
             IN /\ q.call.via = p
                /\ p \notin AbandonedProviders(q, {"budget", "break"})
                /\ providers'[p].usage_today = providers[p].usage_today + 1
                /\ providers'[p].errors_today = providers[p].errors_today
                /\ \A o \in AbandonedProviders(q, {"budget", "break"}) :
                     providers'[o] = providers[o]

\* C13: every backend a request gives up (its budget exhausted, or a failure that is
\* no quota or model error) gets errors_today + 1 and the failure message as
\* last_error, keeps its usage_today, and adds one summary to the request's error
\* list; when a later backend answers, the result is that backend's, its usage_today
\* grows by 1 and no errors_today changes.
C13_AbandonmentCounted == [][\A r \in Requests : C13_Step(r)]_vars

C13_Witness ==
    \E r \in Requests :
        /\ req[r].pc = "done"
        /\ req[r].result.ok
        /\ Len(req[r].abandoned) = 1
        /\ req[r].abandoned[1].reason = "budget"
        /\ providers[req[r].abandoned[1].provider].errors_today = 1
        /\ providers[req[r].abandoned[1].provider].usage_today = 0
        /\ Truthy(providers[req[r].abandoned[1].provider].last_error)
        /\ providers[req[r].providers[req[r].idx]].usage_today = 1

\* a credential that is missing, empty, blank, shorter than _init_providers' minimum,
\* or without the prefix of its vendor
Malformed(p, key) ==
    \/ ~Truthy(key)
    \/ Strip(key) = ""
    \/ Len(key) < 10
    \/ p = GOOGLE /\ ~StartsWith(key, "AI")
    \/ p = OPENAI /\ ~StartsWith(key, "sk-")

\* C14: a backend whose credential is missing or malformed is disabled in every
\* state, after discovery too, and is in no result of get_available_providers.
C14_MalformedKeyDisabled ==
    \A p \in Provider :
        Malformed(p, env.keys[p]) =>
            /\ ~providers[p].enabled
            /\ \A st \in ServiceType :
                 \A i \in 1..Len(get_available_providers(providers, st)) :
                    get_available_providers(providers, st)[i] # p

C15_Step(r) ==
    LET q == req[r]
        p == q.call.via
    IN  (Responded(r) /\ req'[r].last_failure = "quota-style"
            /\ Len(RankedModels(p, q.service)) = 1)
        => IF q.ncalls < Budget(q.service)
           THEN /\ req'[r].pc = "call"
                /\ req'[r].call.via = p
                /\ req'[r].call.model = q.call.model
                /\ req'[r].ncalls = q.ncalls + 1
                /\ req'[r].abandoned = q.abandoned
           ELSE /\ q.ncalls = Budget(q.service)
                /\ GivesUp(r, p)

\* C15: a backend with a single ranked model whose calls all fail with quota-style
\* or model-unavailable errors is called with that model again after every such
\* failure until 16 (chat) / 6 (image) / 6 (video) calls were made, and is given up
\* at the failure of the last of them.
C15_SingleModelRetried == [][\A r \in Requests : C15_Step(r)]_vars

\* C16: when an exception is raised inside _setup_and_discover_async,
\* discovery_completed is false after ensure_discovery has returned.
C16_FailedDiscoveryNotCompleted ==
    env.body_fail # None => ~discovery_completed

\* C17: in every reachable state user_limits_cache holds at most max_cache_size
\* entries.
C17_CacheBounded == Len(user_limits_cache) <= max_cache_size

\* C18: in every reachable state, for every backend and capability, the active
\* model is unset or is the name of a model of the backend's ranked list for the
\* capability.
C18_ActiveModelIsDiscovered ==
    \A p \in Provider :
        \A st \in DOMAIN providers[p].active_models :
            /\ st \in ServiceType
            /\ \E i \in 1..Len(RankedModels(p, st)) :
                   RankedModels(p, st)[i].name = providers[p].active_models[st]

\* the image model of Google was set by the first-attempt default (the discovery
\* body raised before _select_best_models), the chat model by a rotation, and the
\* counters were reset since
C18_Witness ==
    /\ env.body_fail = "others"
    /\ resets = 1
    /\ IMAGE \in DOMAIN providers[GOOGLE].active_models
    /\ CHAT \in DOMAIN providers[GOOGLE].active_models
    /\ providers[GOOGLE].active_models[CHAT] # RankedModels(GOOGLE, CHAT)[1].name

\* the count check_user_limit reads for a key: the cached one, else the durable one
CountRead(key) ==
    IF InCache(user_limits_cache, key) THEN CacheGet(user_limits_cache, key, 0) ELSE db_usage[key]

C19_Step(r) ==
    LET q == req'[r]
        key == CacheKey(q.user_id, today, ServiceKey[q.service])
        limit == env.user_limit[ServiceKey[q.service]]
    IN  /\ (Entered(r) /\ (q.pc \in {"call", "enhance"}
                           \/ q.result.kind \in {"unavailable", "all_failed"}))
            => /\ CountRead(key) < limit
               /\ InCache(user_limits_cache', key)
               /\ CacheGet(user_limits_cache', key, 0) = CountRead(key)
               /\ db_usage' = db_usage
               /\ commits' = commits
               /\ \A p \in Provider : providers'[p].usage_today = providers[p].usage_today
        /\ (Entered(r) /\ q.result.kind = "quota") => CountRead(key) >= limit
        /\ (Responded(r) /\ q.pc = "done" /\ q.result.ok)
            => /\ db_usage'[key] = db_usage[key] + 1
               /\ providers'[req[r].providers[req[r].idx]].usage_today
                    = providers[req[r].providers[req[r].idx]].usage_today + 1

\* C19: the quota check reserves nothing: a request is admitted when the count read
\* is below the limit, admission changes no count, and each success adds 1 to the
\* user's durable count and to the backend's usage_today whatever they are by then;
\* so requests of one user for one capability admitted together end with a count
\* above the limit, and a backend's usage_today above its daily_limit.
C19_CheckReservesNothing == [][\A r \in Requests : C19_Step(r)]_vars

\* with no reset in between, the image count of user 1 is above the image limit and
\* Google's usage_today above its daily limit
C19_Witness ==
    /\ resets = 0
    /\ db_usage[CacheKey(1, today, ServiceKey[IMAGE])] > env.user_limit[ServiceKey[IMAGE]]
    /\ commits[CacheKey(1, today, ServiceKey[IMAGE])] = db_usage[CacheKey(1, today, ServiceKey[IMAGE])]
    /\ providers[GOOGLE].usage_today > providers[GOOGLE].daily_limit

\* (errors_today, usage_today) of a <= that of b, lexicographically
KeyLeq(a, b) ==
    \/ a.errors_today < b.errors_today
    \/ a.errors_today = b.errors_today /\ a.usage_today <= b.usage_today

C20_Listed(r) ==
    LET q == req'[r]
        L == q.providers
    IN  (Entered(r) /\ q.result.kind \notin {"invalid_user", "too_short", "quota"})
        => /\ {L[i] : i \in 1..Len(L)} =
                {p \in Provider : /\ providers'[p].enabled
                                  /\ Supports(p, q.service)
                                  /\ providers[p].usage_today < providers[p].daily_limit}
           /\ \A i, j \in 1..Len(L) : i < j =>
                /\ L[i] # L[j]
                /\ KeyLeq(providers[L[i]], providers[L[j]])
                /\ KeyLeq(providers[L[j]], providers[L[i]])
                     => Pos(ProviderOrder, L[i]) < Pos(ProviderOrder, L[j])

C20_Followed(r) ==
    LET q == req[r]
    IN  q.pc # "idle" /\ q.providers # <<>> =>
           /\ q.pc = "call" => q.idx \in 1..Len(q.providers) /\ q.call.via = q.providers[q.idx]
           /\ q.pc = "done" /\ q.result.ok => q.idx \in 1..Len(q.providers)
           /\ \A i \in 1..Len(q.abandoned) :
                \E k \in 1..Len(q.providers) :
                    /\ q.providers[k] = q.abandoned[i].provider
                    /\ k < q.idx
                    /\ \A j \in 1..Len(q.abandoned) :
                         i < j => \E m \in 1..Len(q.providers) :
                                     q.providers[m] = q.abandoned[j].provider /\ k < m

\* C20: the list of a request holds exactly the backends that are enabled, support
\* the capability and are below their daily limit, in ascending order of
\* (errors_today, usage_today) as they were when the request entered, equal keys
\* in registry order; the list does not change during the request and the backends
\* are called and given up in its order.
C20_AttemptOrder ==
    /\ [][\A r \in Requests :
            /\ C20_Listed(r)
            /\ (req[r].pc # "idle" /\ req'[r].pc # "idle")
                  => req'[r].providers = req[r].providers /\ req'[r].idx >= req[r].idx]_vars
    /\ [](\A r \in Requests : C20_Followed(r))

\* an image request whose list is Stability, OpenAI, Google: no errors and no usage,
\* no errors and one use, one error; it is calling OpenAI after giving up Stability
C20_Witness ==
    \E r \in Requests :
        /\ req[r].pc = "call"
        /\ req[r].providers = <<STABILITY, OPENAI, GOOGLE>>
        /\ req[r].call.via = OPENAI
        /\ providers[OPENAI].usage_today = 1
        /\ providers[GOOGLE].errors_today = 1

\* C21: every generation call whose handler takes a model is made with the model
\* the engine selected for the attempt (the active model, then the models
\* rotate_model returned), a Google chat call of a user who has a session included.
C21_CallUsesSelectedModel ==
    \A r \in Requests :
        (req[r].pc = "call" /\ req[r].call.sent_to # None)
            => req[r].call.sent_to = req[r].call.model

\* C22: a backend of the request's list is given up only after at least one call
\* was made to it.
C22_CalledBeforeGivenUp ==
    \A r \in Requests :
        \A i \in 1..Len(req[r].abandoned) :
            req[r].abandoned[i].reason # "disabled" => req[r].abandoned[i].called

\* C23: every key of user_limits_cache holds the count the durable table holds for
\* its user, day and capability.
C23_CacheMatchesStore ==
    \A i \in 1..Len(user_limits_cache) :
        user_limits_cache[i].count = db_usage[user_limits_cache[i].key]

\* the keys of a cache
CachedKeys(cache) == {cache[i].key : i \in 1..Len(cache)}

C24_Step(r) ==
    LET q == req'[r]
        key == CacheKey(q.user_id, today, ServiceKey[q.service])
        order == Touch(touch_order, key, Append(user_limits_cache, [key |-> key, count |-> 0]))
        dropped == (CachedKeys(user_limits_cache) \cup {key}) \ CachedKeys(user_limits_cache')
    IN  (Entered(r) /\ q.result.kind \notin {"invalid_user", "too_short"})
        => /\ key \notin dropped
           /\ dropped # {} => /\ dropped = {Head(order)}
                              /\ Len(user_limits_cache) >= max_cache_size

\* C24: when a check makes the cache exceed max_cache_size, the entry dropped is the
\* least recently touched one (touches: the hits and hydrations of check_user_limit
\* and the count updates of update_user_usage), and never the key just checked.
C24_EvictsLeastRecentlyTouched == [][\A r \in Requests : C24_Step(r)]_vars

\* the entries of a cache whose key is of the given day, in their order
EntriesOfDay(cache, day) ==
    LET OfDay(entry) == entry.key[2] = day
    IN SelectSeq(cache, OfDay)

\* C25: reset_daily_counts removes from user_limits_cache exactly the entries whose
\* key is of another day than the current one; the entries of the current day stay,
\* with their counts.
C25_SweepKeepsToday ==
    [][reset_daily_counts => user_limits_cache' = EntriesOfDay(user_limits_cache, today)]_vars

\* the fields of a provider that reset_daily_counts sets
C26_Counters(config) ==
    [usage_today |-> config.usage_today, errors_today |-> config.errors_today,
     last_error |-> config.last_error]

C26_ResetStep ==
    reset_daily_counts
        => /\ \A p \in Provider :
                /\ C26_Counters(providers'[p]) =
                       [usage_today |-> 0, errors_today |-> 0, last_error |-> None]
                /\ providers'[p].enabled = providers[p].enabled
                /\ providers'[p].daily_limit = providers[p].daily_limit
                /\ providers'[p].discovered_models = providers[p].discovered_models
                /\ providers'[p].active_models = providers[p].active_models
           /\ UNCHANGED <<discovery_completed, chat_sessions, generated_files_cache>>

C26_RequestStep ==
    req' # req
        => \A p \in Provider :
                /\ providers'[p].usage_today >= providers[p].usage_today
                /\ providers'[p].errors_today >= providers[p].errors_today
                /\ providers[p].last_error # None => providers'[p].last_error # None

\* C26: reset_daily_counts sets usage_today and errors_today to 0 and last_error to
\* None for each of the five providers, enabled or not, and leaves enabled,
\* daily_limit, the discovered and active models, discovery_completed, the chat
\* sessions and the asset cache as they are; no step of a request resets a counter
\* or clears a last_error.
C26_ResetsCountersOnly == [][C26_ResetStep /\ C26_RequestStep]_vars

\* a reset has run after a success, with a chat session open and a disabled provider
\* in the table
C26_Witness ==
    /\ resets >= 1
    /\ \E k \in DOMAIN db_usage : db_usage[k] >= 1
    /\ \A p \in Provider : C26_Counters(providers[p]) =
                               [usage_today |-> 0, errors_today |-> 0, last_error |-> None]
    /\ \E p \in Provider : ~providers[p].enabled
    /\ DOMAIN chat_sessions # {}

C27_Step(r) ==
    LET q == req[r]
        p == q.providers[q.idx]
    IN  (db_log' = db_log /\ RespondWith(r, Timeout))
        => /\ req'[r].last_failure = "other"
           /\ GivesUp(r, p)
           /\ req'[r].abandoned[Len(q.abandoned) + 1].reason = "break"
           /\ providers'[p].active_models = providers[p].active_models
           /\ providers'[p].discovered_models = providers[p].discovered_models
           /\ providers'[p].errors_today = providers[p].errors_today + 1
           /\ providers'[p].usage_today = providers[p].usage_today

\* C27: a backend call that exceeds its timeout counts as a failure that is neither
\* quota-style nor model-unavailable: the step rotates no model, gives the backend up
\* after this attempt with errors_today + 1, and moves on to the next backend.
C27_TimeoutBreaks == [][\A r \in Requests : C27_Step(r)]_vars

\* a backend was given up after a later attempt (its first one led to a rotation)
\* failed for a reason that is no quota or model error
C27_Witness ==
    \E r \in Requests :
        /\ req[r].last_failure = "other"
        /\ req[r].abandoned # <<>>
        /\ ~req[r].abandoned[Len(req[r].abandoned)].first
        /\ req[r].abandoned[Len(req[r].abandoned)].reason = "break"
        /\ providers[req[r].abandoned[Len(req[r].abandoned)].provider].errors_today >= 1

\* the request r has passed the input validation of its entry point
Validated(r) == req[r].pc # "idle" /\ req[r].result.kind \notin {"invalid_user", "too_short"}

\* C28: after the input validation the text a request goes on with is within the
\* bound of its entry point, whatever the length of the input: at most 4000 characters
\* for chat, 2000 for an image prompt, 1000 for a video prompt.
C28_TextWithinBound ==
    \A r \in Requests : Validated(r) => Len(req[r].prompt) <= MaxLen(req[r].service)

\* the request r receives a generated image or video in this step
Generated(r) == Responded(r) /\ req'[r].pc = "done" /\ req'[r].result.ok /\ req[r].service # CHAT

C29_Written(r) ==
    LET q == req[r]
        key == <<IF q.service = IMAGE THEN "image" ELSE "video", q.user_id, Fingerprint(q.prompt)>>
    IN  /\ DOMAIN generated_files_cache' = DOMAIN generated_files_cache \cup {key}
        /\ generated_files_cache'[key].url = req'[r].result.value
        /\ generated_files_cache'[key].prompt = q.prompt
        /\ generated_files_cache'[key].provider = q.providers[q.idx]
        /\ \A k \in DOMAIN generated_files_cache \ {key} :
               generated_files_cache'[k] = generated_files_cache[k]

\* C29: the step in which an image or video request succeeds writes the location, the
\* prompt and the backend of the generation under (kind, user, fingerprint of the
\* prompt), over the entry the key had, and leaves the other entries as they were; no
\* other step writes the asset cache.
C29_AssetCacheHoldsLatest ==
    [][IF \E r \in Requests : Generated(r)
       THEN \A r \in Requests : Generated(r) => C29_Written(r)
       ELSE generated_files_cache' = generated_files_cache]_vars

\* three generations of one user have succeeded, the last of them under a fingerprint
\* an earlier one had, with another prompt, and another fingerprint holds an entry too
C29_Witness ==
    /\ Len(db_log) = 3
    /\ \A i \in 1..3 : db_log[i].table = "generated_files" /\ db_log[i].user_id = 1
                          /\ db_log[i].kind = "image"
    /\ Fingerprint(db_log[1].input) = Fingerprint(db_log[3].input)
    /\ db_log[1].input # db_log[3].input
    /\ Fingerprint(db_log[2].input) # Fingerprint(db_log[3].input)
    /\ generated_files_cache[<<"image", 1, Fingerprint(db_log[3].input)>>].prompt = db_log[3].input
    /\ <<"image", 1, Fingerprint(db_log[2].input)>> \in DOMAIN generated_files_cache

\* the requests that a backend call of the list entry p answers with a result in this step
SucceedsNow(p) ==
    {r \in Requests : Responded(r) /\ req'[r].pc = "done" /\ req'[r].result.ok
                         /\ req[r].providers[req[r].idx] = p}

\* the abandonments of p in this step, as pairs of a request and a position of its
\* abandoned list
AbandonsNow(p) ==
    {ri \in Requests \X (1..Cardinality(Provider)) :
        ri[2] \in GivenUpNow(ri[1]) /\ req'[ri[1]].abandoned[ri[2]].provider = p}

\* the rows the successes of a user with a capability have left in the log tables
LoggedFor(user_id, service_type) ==
    {i \in 1..Len(db_log) :
        /\ db_log[i].user_id = user_id
        /\ db_log[i].kind = (CASE service_type = CHAT -> "chat" [] service_type = IMAGE -> "image"
                                [] OTHER -> "video")}

C30_Step ==
    \A p \in Provider :
        /\ providers'[p].usage_today = providers[p].usage_today + Cardinality(SucceedsNow(p))
        /\ providers'[p].errors_today = providers[p].errors_today + Cardinality(AbandonsNow(p))

C30_Totals ==
    \A u \in Users, st \in ServiceType :
        /\ db_usage[CacheKey(u, today, ServiceKey[st])] = commits[CacheKey(u, today, ServiceKey[st])]
        /\ db_usage[CacheKey(u, today, ServiceKey[st])] = Cardinality(LoggedFor(u, st))

\* C30: with requests interleaved at their backend calls no update of a counter is
\* lost: every step adds to usage_today of a provider the number of requests it
\* answers in the step and to errors_today the number of its abandonments in the step,
\* and the durable count of a key is the number of commits for the key.
C30_NoLostUpdate == [][C30_Step]_vars /\ []C30_Totals

\* two requests of one user for one capability were in flight together and both
\* succeeded on a backend with a daily limit of 1
C30_Witness ==
    /\ \A r \in Requests : req[r].pc = "done" /\ req[r].result.ok /\ req[r].service = CHAT
                             /\ req[r].user_id = 1
    /\ providers[GOOGLE].daily_limit = 1
    /\ providers[GOOGLE].usage_today = 2
    /\ db_usage[CacheKey(1, today, ServiceKey[CHAT])] = 2

\* a chat call of request r is issued in this step, to whichever backend
ChatCall(r) ==
    /\ req'[r].pc = "call"
    /\ req'[r].service = CHAT
    /\ req'[r].ncalls = (IF req[r].pc = "idle" THEN 0 ELSE req[r].ncalls) + 1

\* C31: when a chat call is issued, to Google or to OpenAI, the session store holds
\* no session whose last_activity is older than the idle timeout.
C31_SweptBeforeChatCall ==
    [][\A r \in Requests :
          ChatCall(r) => \A v \in DOMAIN chat_sessions' :
                            now' - chat_sessions'[v].last_activity <= session_timeout]_vars

\* a backend call of request r, generation or prompt enhancement, is issued in this step
CallIssued(r) == req'[r].pc \in {"call", "enhance"} /\ req'[r] # req[r]

\* the providers table is the one a finished discovery run leaves, up to counters
\* and rotations: the providers enabled, their model lists, and an active model
\* for every capability the run selected one for
DiscoveryFinished(P) ==
    LET D == _setup_and_discover_async(_init_providers(env), env)
    IN \A p \in Provider :
          /\ P[p].enabled = D[p].enabled
          /\ P[p].discovered_models = D[p].discovered_models
          /\ \A st \in DOMAIN D[p].active_models : DictGet(P[p].active_models, st, None) # None

C32_Step(r) ==
    CallIssued(r)
        => /\ discovery_completed'
           /\ discoveries' = 1
           /\ DiscoveryFinished(providers')
           /\ discovery_completed \/ (Entered(r) /\ discoveries = 0)

\* C32: no backend call, generation or prompt enhancement, is issued before a
\* discovery run has finished: when a call is issued the flag is set, the discovery
\* body has run, the providers table is the one the finished run leaves, and the run
\* took place in an earlier step or earlier in the entry step of the same request.
C32_NoCallBeforeDiscovery == [][\A r \in Requests : C32_Step(r)]_vars

\* two requests have their backend calls in flight together, the first of them
\* having run the discovery
C32_Witness ==
    /\ discoveries = 1
    /\ started = 2
    /\ req[1].pc = "call" /\ req[2].pc = "enhance"

\* the families of model names that carry a version after their prefix
Families == {"gemini-", "imagen-", "veo-", "gpt-", "dall-e-"}

RECURSIVE After(_, _)
\* what follows the first occurrence of prefix p in s; "" when s does not hold p
After(s, p) ==
    IF Len(s) < Len(p) THEN ""
    ELSE IF StartsWith(s, p) THEN SubSeq(s, Len(p) + 1, Len(s))
    ELSE After(SubSeq(s, 2, Len(s)), p)

Digits == "0123456789"

IsDigit(c) == \E i \in 1..10 : SubSeq(Digits, i, i) = c

DigitValue(c) == (CHOOSE i \in 1..10 : SubSeq(Digits, i, i) = c) - 1

\* the family of a model name, None for a name of no family
FamilyOf(name) ==
    IF \E f \in Families : Contains(Lower(name), f)
    THEN CHOOSE f \in Families : Contains(Lower(name), f)
    ELSE None

\* the version a model name carries after its family prefix, as 10 * major + minor
\* ("gemini-2.5-pro": 25, "gemini-3-pro-preview": 30, "gpt-4o": 40); -1 for a name
\* that carries none
NameVersion(name) ==
    LET rest == IF FamilyOf(name) = None THEN "" ELSE After(Lower(name), FamilyOf(name))
    IN  IF rest = "" \/ ~IsDigit(SubSeq(rest, 1, 1)) THEN -1
        ELSE 10 * DigitValue(SubSeq(rest, 1, 1))
             + (IF Len(rest) >= 3 /\ SubSeq(rest, 2, 2) \in {".", "-"} /\ IsDigit(SubSeq(rest, 3, 3))
                THEN DigitValue(SubSeq(rest, 3, 3)) ELSE 0)

\* the model a is of a newer version than b, both of one family
Newer(a, b) ==
    /\ FamilyOf(a.name) # None
    /\ FamilyOf(a.name) = FamilyOf(b.name)
    /\ NameVersion(b.name) >= 0
    /\ NameVersion(a.name) > NameVersion(b.name)

\* the models a provider lists for a capability
Listed(p, st) ==
    LET models == DictGet(providers[p].discovered_models, st, <<>>)
    IN {models[i] : i \in 1..Len(models)}

\* of two listed models of one family the newer has the lower priority number
C33_Monotone(sts) ==
    \A p \in Provider, st \in sts : \A a, b \in Listed(p, st) :
        Newer(a, b) => a.priority < b.priority

\* the order between the families and the unmatched names: banana before every
\* imagen, every gpt-4 before every gpt-3.5, a gemini of no known version last
C33_Chains ==
    /\ \A a, b \in Listed(GOOGLE, IMAGE) :
          (Contains(Lower(a.name), "banana") /\ FamilyOf(b.name) = "imagen-") => a.priority < b.priority
    /\ \A a, b \in Listed(GOOGLE, CHAT) :
          (NameVersion(a.name) >= 10 /\ NameVersion(b.name) < 10) => a.priority < b.priority
    /\ \A a, b \in Listed(OPENAI, CHAT) :
          (NameVersion(a.name) >= 40 /\ NameVersion(b.name) < 40) => a.priority < b.priority

\* a name of no capability pattern is in no list
C33_Discarded ==
    \A p \in Provider, st \in ServiceType : \A m \in Listed(p, st) :
        \/ FamilyOf(m.name) # None
        \/ Contains(Lower(m.name), "gemini") \/ Contains(Lower(m.name), "imagen")
        \/ Contains(Lower(m.name), "banana") \/ Contains(Lower(m.name), "veo")

\* C33: for every backend and capability the priority numbers are version-monotone:
\* of two listed models of one family the one with the newer version has the strictly
\* lower number, banana is before every imagen, every gpt-4 before every gpt-3.5, a
\* gemini of no known version is last, and a name of no capability pattern is in no list.
C33_PriorityVersionMonotone ==
    C33_Monotone(ServiceType) /\ C33_Chains /\ C33_Discarded

----------------------------------------------------------------------------
(* Specification of the engine with backends that answer: every awaited backend call
   returns a value, returns nothing or raises (each handler bounds its call with a
   timeout or hands it to a client library that does) *)

Answers(r) == EnhanceReturn(r) \/ RespondOk(r) \/ RespondEmpty(r) \/ RespondError(r)

NextLive ==
    \/ Start(1, MaxRequests)
    \/ EnhanceReturn(1)
    \/ RespondOk(1)
    \/ RespondEmpty(1)
    \/ RespondError(1)
    \/ Finish(1)

\* request r is suspended at a backend call: the condition under which Answers(r)
\* is enabled
Awaiting(r) == req[r].pc \in {"call", "enhance"}

\* weak fairness of Answers(1), WF_vars(Answers(1)), with ENABLED written out
SpecLive ==
    Init /\ [][NextLive]_vars /\ ([]<>(~Awaiting(1)) \/ []<><<Answers(1)>>_vars)

\* the backends that serve a capability
Backends(service_type) == {p \in Provider : Supports(p, service_type)}

\* max_retries calls for each backend of the capability
MaxCalls(service_type) == MaxRetries(service_type) * Cardinality(Backends(service_type))

\* the most calls a request has issued so far: max_retries for each provider its loop
\* has left behind, and those issued for the provider it is at
Spent(q) ==
    MaxRetries(q.service) * (q.idx - 1) + (IF q.idx <= Len(q.providers) THEN q.ncalls ELSE 0)

C34_Call(r) ==
    LET q == req[r]
    IN  q.pc = "call" =>
        /\ q.idx \in 1..Len(q.providers)
        /\ q.call.via = q.providers[q.idx]
        /\ \A i, j \in 1..Len(q.providers) : q.providers[i] = q.providers[j] => i = j
        /\ \A i \in 1..Len(q.providers) : q.providers[i] \in Backends(q.service)
        /\ q.ncalls \in 1..MaxRetries(q.service)
        /\ Spent(q) <= MaxCalls(q.service)
        /\ MaxCalls(q.service) = (IF q.service = CHAT THEN 32 ELSE 18)

C34_Step(r) ==
    LET q == req[r]
        q1 == req'[r]
    IN  (q.pc = "call" /\ q1 # q) =>
        /\ q1.pc \in {"call", "done"}
        /\ q1.providers = q.providers
        /\ q1.idx >= q.idx
        /\ (q1.pc = "call" /\ q1.idx = q.idx) => q1.ncalls = q.ncalls + 1
        /\ (q1.pc = "call" /\ q1.idx > q.idx) => q1.ncalls = 1
        /\ q1.pc = "done" => q1.result # NoResult

\* C34: a request issues at most max_retries calls (16 chat, 6 image, 6 video) through
\* each backend and goes through each backend of its list once, so it issues at most
\* 32 calls for chat and 18 for an image or a video, and it ends with a result.
C34_BoundedCallsThenResult ==
    /\ [](\A r \in Requests : C34_Call(r))
    /\ [][\A r \in Requests : C34_Step(r)]_vars
    /\ \A r \in Requests : (req[r].pc # "idle") ~> (req[r].pc = "done" /\ req[r].result # NoResult)

\* a chat request that went through its two backends with 16 calls each has its result
C34_Witness ==
    /\ req[1].pc = "done" /\ req[1].service = CHAT
    /\ Len(req[1].providers) = 2 /\ req[1].idx = 3
    /\ Len(req[1].abandoned) = 2
    /\ \A i \in 1..2 : req[1].abandoned[i].reason = "budget"
    /\ ~req[1].result.ok

----------------------------------------------------------------------------
(* Specification of concurrent rotation: two chat requests of one user interleaved
   at their backend calls; Google alone with two live chat models *)

RotateLive == LiveList(<<"models/gemini-2.0-flash", "models/gemini-2.5-pro">>)

InitRotate == InitManager(EnvOf({GOOGLE}, RotateLive, UserLimits, MaxDailyLimit))

NextRotate ==
    \E r \in Requests :
        \/ StartFrom(r, MaxRequests, LongCallers, ChatOnly)
        \/ RespondOk(r)
        \/ RespondError(r)
        \/ Finish(r)

SpecRotate == InitRotate /\ [][NextRotate]_vars

\* request r returns a success in this step; the model its call was made with is
\* the active model of the backend for the capability when it returns
C35_Step(r) ==
    LET q == req[r]
    IN  (Responded(r) /\ req'[r].pc = "done" /\ req'[r].result.ok)
        => DictGet(providers'[q.call.via].active_models, q.service, None) = q.call.model

\* C35: rotation is sticky under concurrency: whenever a request returns a success
\* from a backend, the backend's active model for the capability is the model whose
\* call succeeded, whatever other requests did to that backend in between.
C35_ActiveIsModelThatSucceeded == [][\A r \in Requests : C35_Step(r)]_vars

----------------------------------------------------------------------------
(* Specification of a failing store: the ai_usage table cannot be read, or cannot be
   written, for the whole behaviour; requests of one user, one after another, and
   the cache reset of the command layer; Google alone with one live chat model *)

StoreEnvs ==
    {[EnvOf({GOOGLE}, QuotaLive, UserLimits, MaxDailyLimit + 2) EXCEPT !.db_fail = f] :
        f \in {{"read"}, {"write"}}}

InitStore == \E e \in StoreEnvs : InitManager(e)

NextStore ==
    \/ StartAs(1, MaxRequests + 1, LongCallers)
    \/ EnhanceReturn(1)
    \/ RespondOk(1)
    \/ RespondError(1)
    \/ Finish(1)
    \/ reset_cache_command

SpecStore == InitStore /\ [][NextStore]_vars

\* the key of the quota of request q
QuotaKey(q) == CacheKey(q.user_id, today, ServiceKey[q.service])

\* request r enters in this step, passes the validation of its inputs, and the read
\* of its quota raises
ReadRaisedFor(r) ==
    /\ Entered(r)
    /\ req'[r].result.kind \notin {"invalid_user", "too_short"}
    /\ ReadRaises(user_limits_cache, req'[r].user_id, ServiceKey[req'[r].service], today)

C36_Step(r) ==
    LET q1 == req'[r]
        P == ensure_discovery(providers, discovery_completed, env)
    IN  ReadRaisedFor(r) =>
        /\ q1.result.kind # "quota"
        /\ q1.providers = get_available_providers(P, q1.service)
        /\ q1.providers # <<>> =>
              \/ q1.pc \in {"call", "enhance"}
              \/ q1.pc = "done" /\ q1.result.kind = "all_failed"
        /\ q1.providers = <<>> => q1.pc = "done" /\ q1.result.kind = "unavailable"
        /\ user_limits_cache' = user_limits_cache
        /\ db_usage' = db_usage

\* C36: the quota check fails open: when the read of the durable count raises, the
\* check answers (True, 999), the request goes on to the backends as one with
\* allowance does (it is not refused for its quota, whatever the durable count), and
\* the entry point returns a result or awaits a backend; the cache is left as it was.
C36_CheckFailsOpen == [][\A r \in Requests : C36_Step(r)]_vars

\* a request whose durable count has reached the limit is at a backend call, the read
\* of the count having raised
C36_Witness ==
    /\ "read" \in env.db_fail
    /\ req[1].pc = "call"
    /\ db_usage[QuotaKey(req[1])] >= DictGet(env.user_limit, ServiceKey[req[1].service], 20)
    /\ ~InCache(user_limits_cache, QuotaKey(req[1]))

\* the count the cache holds for a key, -1 for a key it does not hold
CachedCount(cache, key) == IF InCache(cache, key) THEN CacheGet(cache, key, 0) ELSE -1

C37_Step(r) ==
    LET q == req[r]
        p == q.providers[q.idx]
        key == QuotaKey(q)
    IN  \* the backend call of r returns a value (the success branch logs it) and
        \* the table cannot be written
        (Responded(r) /\ db_log' # db_log /\ "write" \in env.db_fail)
        => /\ commits' = commits
           /\ db_usage' = db_usage
           /\ CachedCount(user_limits_cache', key) = CacheGet(user_limits_cache, key, 0) + 1
           /\ CachedCount(user_limits_cache, key) = db_usage[key]
                 => CachedCount(user_limits_cache', key) = db_usage'[key] + 1
           /\ req'[r].result.ok /\ req'[r].result.kind = "success"
           /\ providers'[p].usage_today = providers[p].usage_today + 1

\* C37: when the durable increment of update_user_usage fails, the update returns
\* False (no update is counted as made) and raises nothing, the cached count of the
\* key is already one higher while the table is as it was (a cache that agreed with
\* the table is now one ahead of it), and the request returns its successful result
\* and counts one more use of the backend.
C37_FailedIncrementKeepsSuccess == [][\A r \in Requests : C37_Step(r)]_vars

\* a request has succeeded with the table not writable: cache one ahead of the table
C37_Witness ==
    /\ "write" \in env.db_fail
    /\ req[1].pc = "done" /\ req[1].result.ok
    /\ CachedCount(user_limits_cache, QuotaKey(req[1])) = 1
    /\ db_usage[QuotaKey(req[1])] = 0
    /\ providers[GOOGLE].usage_today = 1

\* the entries of an error list that name provider p
ErrorsOf(errors, p) == {i \in 1..Len(errors) : StartsWith(errors[i], p \o ": ")}

C38_Step(r) ==
    LET q == req[r]
        q1 == req'[r]
        p == q.call.via
    IN  (q.pc = "call" /\ db_log' = db_log /\ q1.last_failure = None /\ RespondEmpty(r))
        => /\ Counters(providers')[p] = Counters(providers)[p]
           /\ user_limits_cache' = user_limits_cache
           /\ db_usage' = db_usage
           /\ SubSeq(q1.errors, 1, Len(q.errors)) = q.errors
           /\ ErrorsOf(q1.errors, p) = ErrorsOf(q.errors, p)
           /\ AbandonedProviders(q1, {"budget", "break", "disabled"})
                 = AbandonedProviders(q, {"budget", "break", "disabled"})
                     \cup {q1.providers[i] : i \in (q.idx + 1)..(q1.idx - 1)}
           /\ q1.result.kind # "success"
           /\ q1.idx > q.idx
           /\ q1.pc = "call" => q1.call.via = q1.providers[q1.idx] /\ q1.call.via # p
           /\ q1.pc = "done" =>
                 q1.result = (IF q1.errors = <<>>
                              THEN Result(FALSE, "unexpected", None, "an unexpected error occurred.")
                              ELSE ExhaustedResult(q.service, q1.errors))

\* C38: a backend call that returns a falsy result without raising is neither a
\* success nor an abandonment: usage_today, errors_today and last_error of that
\* backend, the user's count in cache and table and the error list of the request
\* (for that backend) stay as they were, the loop goes on with the next backend, and
\* a request in which no backend answered with a value and none raised returns the
\* generic 'unexpected error' failure with no backend summary.
C38_EmptyIsSkipped == [][\A r \in Requests : C38_Step(r)]_vars

\* a request returned the generic failure after its only backend answered with nothing
C38_Witness ==
    /\ req[1].pc = "done" /\ req[1].result.kind = "unexpected"
    /\ req[1].errors = <<>> /\ req[1].abandoned = <<>>
    /\ req[1].idx = 2 /\ req[1].ncalls = 1

\* a provider's configuration with the fields an abandonment and a rotation write
\* left out
Untouched(config) ==
    [config EXCEPT !.errors_today = 0, !.last_error = None, !.active_models = EmptyDict]

\* a step of request r that is not its success: its entry, a failed or empty answer
FailingStep(r) ==
    /\ Entered(r) \/ Responded(r)
    /\ req'[r].pc # "idle"
    /\ req'[r].result.kind # "success"

\* the providers request r gives up in this step
GivenUpProviders(r) == {req'[r].abandoned[i].provider : i \in GivenUpNow(r)}

\* a step that is not a success leaves the accounts as they were: the user's count,
\* the table, usage_today, the logs and the asset cache; in the providers table it
\* writes errors_today and last_error of the providers given up, and active_models
C39_Step(r) ==
    LET P == ensure_discovery(providers, discovery_completed, env)
        key == QuotaKey(req'[r])
    IN  FailingStep(r) =>
        /\ db_usage' = db_usage
        /\ commits' = commits
        /\ db_log' = db_log
        /\ generated_files_cache' = generated_files_cache
        /\ req'[r].result.kind \notin {"invalid_user", "too_short"} =>
              CachedCount(user_limits_cache', key) \in {CachedCount(user_limits_cache, key), db_usage[key]}
        /\ \A p \in Provider :
              /\ Untouched(providers'[p]) = Untouched(P[p])
              /\ p \notin GivenUpProviders(r) =>
                    /\ providers'[p].errors_today = P[p].errors_today
                    /\ providers'[p].last_error = P[p].last_error

\* the first request of a behaviour has ended in exhaustion: the session store is as
\* it was when the request began
C39_SessionsKept ==
    \A r \in Requests :
        (started = 1 /\ req[r].pc = "done" /\ req[r].result.kind = "all_failed")
            => chat_sessions = EmptyDict

====
